---------------------------- MODULE Spec2Model ----------------------------
(***************************************************************************)
(* A model of the Goofy test-session controller (cros.factory.Goofy,       *)
(* cros.factory.Invocation, cros.factory.Test).                            *)
(*                                                                         *)
(* The controller is single threaded: every handler (a WebSocket event, an *)
(* RPC reply, a timer, a call made by the code of a test's iframe) runs to *)
(* completion, so each handler is one action.  A handler is written as a   *)
(* function from the controller's state (the record This) to its state     *)
(* afterwards, in the order of the statements of the source; the action    *)
(* then installs the result.                                               *)
(*                                                                         *)
(* Not modelled: the console view, layout, tooltips, the language          *)
(* selector.  Of the logger only the severe message of                     *)
(* goofy:call_js_function is kept.                                         *)
(*                                                                         *)
(* Two other pages of the repository are modelled beside the controller,   *)
(* each with its own variables and its own specification: the task queue   *)
(* of Dome (TaskQueue) and the touchscreen test (TouchscreenTest).         *)
(***************************************************************************)
EXTENDS Integers, Sequences, FiniteSets, TLC

(***************************************************************************)
(* Bounds of the model.                                                    *)
(***************************************************************************)
\* set_html events delivered while their history is recorded.
MaxSetHtml == 3
\* The clock units of a second: times are read to 1 / UnitsPerSecond s.
UnitsPerSecond == 2
\* The clock stops here.
MaxNow == 7
\* The tasks runTask makes.
MaxTasks == 3
\* The columns and the rows of the grids touch sequences are made for.
MaxGrid == 5
\* The blocks of the grids of the tests that are touched.
MaxTouchBlocks == 3
\* The values of maxRetries.
MaxRetries == 1

(***************************************************************************)
(* Values.                                                                 *)
(***************************************************************************)
\* JavaScript's null, for the fields that hold a string or null.
Null == "null"
\* JavaScript's undefined, for a property that was never set or was deleted.
Undefined == "undefined"
\* invocations[uuid] = null: the key stays in the map, no object behind it.
NoObject == 0

\* Session ids the backend may announce in goofy:hello.
SessionIds == {"s1", "s2", "s3"}
\* Run ids (message.invocation).
InvocationUuids == {"u1", "u2"}
\* Markup carried by goofy:set_html.
Markups == {"<p>a</p>", "<p>b</p>"}
\* Values of message.args of goofy:run_js.
JsArgs == {"arg1"}
\* Code of goofy:run_js: code that returns normally, code that throws.
JsCodes == {"nop", "throw"}
\* Names of goofy:call_js_function: a function of the iframe, a property
\* of its window that is not there, and an identifier that is not declared
\* there.
JsFunctionNames == {"window.update", "window.missing", "missing"}
\* Error messages given to test.fail().
ErrorMessages == {"boom"}

Statuses == {"UNTESTED", "ACTIVE", "PASSED", "FAILED"}

\* The File objects in the body of a task: none, or one to upload first.
FileCounts == {0, 1}

\* goog.events.KeyCodes: Escape, and the keys 0, L and X.
KeyCodes == [ESC |-> 27, ZERO |-> 48, L |-> 76, X |-> 88]

\* String.fromCharCode(event.keyCode): the code of a digit gives the digit,
\* that of a letter its capital, that of Escape a control character.
FromCharCode(keyCode) ==
    CASE keyCode = 48 -> "0"
      [] keyCode = 76 -> "L"
      [] keyCode = 88 -> "X"
      [] OTHER -> "\\u001b"

(***************************************************************************)
(* The test list returned by get_test_list: a root (path "") holding one   *)
(* group with one leaf.                                                    *)
(***************************************************************************)
TreePaths == {"", "SMT", "SMT.LED"}

Subtests(path) ==
    CASE path = "" -> <<"SMT">>
      [] path = "SMT" -> <<"SMT.LED">>
      [] OTHER -> <<>>

\* The parent of a node of the tree (the root is its own parent here, and
\* Reveal stops there).
ParentPath(path) ==
    CASE path = "SMT" -> ""
      [] path = "SMT.LED" -> "SMT"
      [] path = "SMT.KBD" -> "SMT"
      [] path = "SMT.BAT" -> "SMT"
      [] OTHER -> ""

\* kbd_shortcut of the tests of the list: the leaf has one.
KbdShortcut(path) == IF path = "SMT.LED" THEN "l" ELSE Undefined

\* A test list is given here by its entries: for every path, the paths of
\* the subtests in order, and the shortcut.  This is the list above.
TestList ==
    [p \in TreePaths |->
        [subtests |-> Subtests(p), kbd_shortcut |-> KbdShortcut(p)]]

\* The test list whose tests are `paths` and whose groups hold `subtests`;
\* no test of it has a shortcut.
TestListOf(paths, subtests) ==
    [p \in paths |->
        [ subtests |-> IF p \in DOMAIN subtests THEN subtests[p] ELSE <<>>,
          kbd_shortcut |-> Undefined ]]

\* The leaves of a test list: the tests without subtests.
LeavesOf(testList) ==
    {p \in DOMAIN testList : Len(testList[p].subtests) = 0}

\* The most leaves a test list has here.
MaxLeaves == 3

\* Other test lists a backend may hold, of up to MaxLeaves leaves: a lone
\* leaf under the root; a group of two leaves; a group of one leaf beside a
\* leaf; a group of two leaves beside a leaf; a group of three beside one.
MenuTestLists ==
    { testList \in
        { TestListOf({"", "RF"}, [p \in {""} |-> <<"RF">>]),
          TestListOf({"", "SMT", "SMT.LED", "SMT.KBD"},
                     [p \in {"", "SMT"} |->
                         IF p = "" THEN <<"SMT">>
                                   ELSE <<"SMT.LED", "SMT.KBD">>]),
          TestListOf({"", "SMT", "SMT.LED", "RF"},
                     [p \in {"", "SMT"} |->
                         IF p = "" THEN <<"SMT", "RF">> ELSE <<"SMT.LED">>]),
          TestListOf({"", "SMT", "SMT.LED", "SMT.KBD", "RF"},
                     [p \in {"", "SMT"} |->
                         IF p = "" THEN <<"SMT", "RF">>
                                   ELSE <<"SMT.LED", "SMT.KBD">>]),
          TestListOf({"", "SMT", "SMT.LED", "SMT.KBD", "SMT.BAT", "RF"},
                     [p \in {"", "SMT"} |->
                         IF p = "" THEN <<"SMT", "RF">>
                                   ELSE <<"SMT.LED", "SMT.KBD", "SMT.BAT">>]) } :
        Cardinality(LeavesOf(testList)) <= MaxLeaves }

\* The names every JavaScript object inherits: pathNodeMap and pathTestMap
\* are made with `new Object()`, so that these are found in them.
ObjectPrototypeKeys == {"constructor"}

\* Paths a backend event may name: those of the tree, one that is not, and
\* one that is not but is the name of an inherited property.
EventPaths == TreePaths \cup {"SMT.GONE"} \cup ObjectPrototypeKeys
\* Paths of the tests whose UI is shown (message.test).
TestPaths == {"SMT.LED", "SMT.KBD"}

\* TestState objects sent by the backend.
TestStates ==
    [status : {"UNTESTED", "ACTIVE", "PASSED"}, error_msg : {""}]
        \cup [status : {"FAILED"}, error_msg : {"boom"}]

\* test.state before any state was set (the test list carries none).
NoState == [status |-> Undefined, error_msg |-> ""]

(***************************************************************************)
(* CSS classes, as <<prefix, rest>>, so that startsWith is computed.       *)
(***************************************************************************)
StatusPrefix == "goofy-status-"

ToLowerCase(status) ==
    CASE status = "UNTESTED" -> "untested"
      [] status = "ACTIVE" -> "active"
      [] status = "PASSED" -> "passed"
      [] status = "FAILED" -> "failed"
      [] status = "L" -> "l"
      [] status = "X" -> "x"
      [] OTHER -> status

StartsWith(cls, prefix) == cls[1] = prefix

\* The classes of a tree row as the tree control renders it.
TreeRowClasses == {<<"goog-tree-", "item">>}

(***************************************************************************)
(* State.                                                                  *)
(***************************************************************************)
VARIABLES
    wsIsOpen,       \* goog.net.WebSocket.isOpen() of this.ws
    wsOpened,       \* this.wsOpened
    uuid,           \* this.uuid: the session id, or Null
    reloading,      \* window.location.reload() was called
    invocations,    \* this.invocations: run id -> object (index in objs) or NoObject
    objs,           \* every cros.factory.Invocation constructed, in order
    mainChildren,   \* the iframes (by object) that are children of #goofy-main
    pathNodeMap,    \* this.pathNodeMap: path -> tree node
    pathTestMap,    \* this.pathTestMap: path -> test list entry
    rpcPending,     \* RPC calls sent whose reply has not arrived
    collapseTimers, \* the paths with a pending auto-collapse timeout
    autoCollapse,   \* cros.factory.AUTO_COLLAPSE, as the page was compiled
    engineeringMode,          \* this.engineeringMode
    engineeringPasswordSHA1,  \* this.engineeringPasswordSHA1
    engineeringModeDialog,    \* this.engineeringModeDialog: index in prompts, or NoObject
    prompts,        \* the goog.ui.Prompt dialogs not disposed of, in order
    shutdownDialog, \* this.shutdownDialog: index in shutdownDialogs, or NoObject
    shutdownDialogs,\* the shutdown dialogs not disposed of, each with its
                    \* tick timer and what its spans and progress bar show
    now,            \* the clock that new Date() reads, in clock units
    contextMenuVisible, \* this.contextMenuVisible
    menus,          \* the popup menus rendered and not disposed of
    infoTooltip,    \* the html of this.infoTooltip
    backend,        \* the other end: the state the backend holds for every
                    \* test, the events it wrote to the socket that have
                    \* not been delivered, and its reply to get_test_states
                    \* that has not been delivered
    tasks,          \* Dome: getState().task.tasks, the tasks in the order
                    \* they were created, each with its id and state
    taskBodies,     \* Dome: this._taskBodies, task id -> the body (here
                    \* the number of File objects in it)
    taskResolves,   \* Dome: the task ids that have an entry in
                    \* this._taskResolves
    requests,       \* Dome: the calls of _runTask that wait for a reply,
                    \* each with its task id and the uploads still to do
    promises,       \* Dome: for every promise runTask returned, what was
                    \* given to its resolve, in order
    nextTaskID,     \* Dome: the next id uuid() gives
    touchscreenTest,\* the touchscreen test: window.touchscreenTest with
                    \* the classes of the blocks of its table, or
                    \* Undefined before setupTouchscreenTest
    effects,        \* what the last handler did, in order: the events it
                    \* handed to this.ws.send, the iframes it added and
                    \* removed, the dialogs and alerts it showed and took
                    \* down, the exception that ended it
    evals,          \* what the last handler did with the code of the
                    \* backend, in order: the functions of an iframe it
                    \* applied, the exceptions the code raised, and what
                    \* it gave to cros.factory.logger.severe
    last,           \* the last handler that ran, with its input
    htmlLog         \* the goofy:set_html events handled, in order: the run
                    \* id, the append flag and the markup of each

vars ==
    <<wsIsOpen, wsOpened, uuid, reloading, invocations, objs,
      mainChildren, pathNodeMap, pathTestMap, rpcPending, collapseTimers,
      autoCollapse,
      engineeringMode, engineeringPasswordSHA1, engineeringModeDialog,
      prompts, shutdownDialog, shutdownDialogs, now, contextMenuVisible,
      menus, infoTooltip, backend, tasks, taskBodies, taskResolves,
      requests, promises, nextTaskID, touchscreenTest, effects, evals,
      last, htmlLog>>

\* The state of the task queue of Dome, which is another page.
domeVars ==
    <<tasks, taskBodies, taskResolves, requests, promises, nextTaskID>>

\* window.touchscreenTest before setupTouchscreenTest.
NoTouchscreenTest == [undefined |-> TRUE]

\* The state of the page of the touchscreen test.
touchVars ==
    <<touchscreenTest>>

\* The state of the Goofy controller, but for what its last handler did.
goofyVars ==
    <<wsIsOpen, wsOpened, uuid, reloading, invocations, objs,
      mainChildren, pathNodeMap, pathTestMap, rpcPending, collapseTimers,
      autoCollapse,
      engineeringMode, engineeringPasswordSHA1, engineeringModeDialog,
      prompts, shutdownDialog, shutdownDialogs, now, contextMenuVisible,
      menus, infoTooltip, backend, htmlLog>>

\* new TaskQueue(), with the initial state of the store: no tasks.
NewTaskQueue ==
    [ tasks |-> <<>>, taskBodies |-> <<>>, taskResolves |-> {},
      requests |-> {}, promises |-> <<>>, nextTaskID |-> 1,
      effects |-> <<>> ]

\* The controller's state at the start of a handler.
This ==
    [ wsIsOpen |-> wsIsOpen, wsOpened |-> wsOpened, uuid |-> uuid,
      reloading |-> reloading, invocations |-> invocations,
      objs |-> objs, mainChildren |-> mainChildren,
      pathNodeMap |-> pathNodeMap, pathTestMap |-> pathTestMap,
      rpcPending |-> rpcPending, collapseTimers |-> collapseTimers,
      autoCollapse |-> autoCollapse,
      engineeringMode |-> engineeringMode,
      engineeringPasswordSHA1 |-> engineeringPasswordSHA1,
      engineeringModeDialog |-> engineeringModeDialog,
      prompts |-> prompts, shutdownDialog |-> shutdownDialog,
      shutdownDialogs |-> shutdownDialogs, now |-> now,
      contextMenuVisible |-> contextMenuVisible, menus |-> menus,
      infoTooltip |-> infoTooltip, backend |-> backend,
      effects |-> <<>>, evals |-> <<>> ]

\* The state a handler leaves becomes the next state.
Becomes(s) ==
    /\ wsIsOpen' = s.wsIsOpen
    /\ wsOpened' = s.wsOpened
    /\ uuid' = s.uuid
    /\ reloading' = s.reloading
    /\ invocations' = s.invocations
    /\ objs' = s.objs
    /\ mainChildren' = s.mainChildren
    /\ pathNodeMap' = s.pathNodeMap
    /\ pathTestMap' = s.pathTestMap
    /\ rpcPending' = s.rpcPending
    /\ collapseTimers' = s.collapseTimers
    /\ autoCollapse' = s.autoCollapse
    /\ engineeringMode' = s.engineeringMode
    /\ engineeringPasswordSHA1' = s.engineeringPasswordSHA1
    /\ engineeringModeDialog' = s.engineeringModeDialog
    /\ prompts' = s.prompts
    /\ shutdownDialog' = s.shutdownDialog
    /\ shutdownDialogs' = s.shutdownDialogs
    /\ now' = s.now
    /\ contextMenuVisible' = s.contextMenuVisible
    /\ menus' = s.menus
    /\ infoTooltip' = s.infoTooltip
    /\ backend' = s.backend
    /\ effects' = s.effects
    /\ evals' = s.evals
    /\ UNCHANGED domeVars
    /\ UNCHANGED touchVars

\* A call of sendRpc(method, args, callback): the request that is out, and
\* the function its closure holds, named by where the source defines it.
RpcCall(method, args, callback) ==
    [method |-> method, params |-> args, callback |-> callback]

\* @define: whether to collapse items once tests have completed.  The
\* compiler may be given another value; FALSE is that of the source.
AUTO_COLLAPSE == FALSE

\* The calls of init(), and the one of setTestList().
GetTestList == RpcCall("get_test_list", <<>>, "setTestList")

GetSystemInfo == RpcCall("get_shared_data", <<"system_info">>, "setSystemInfo")

GetTestListOptions ==
    RpcCall("get_shared_data", <<"test_list_options">>, "init:test_list_options")

GetTestStates == RpcCall("get_test_states", <<>>, "setTestList:get_test_states")

\* The backend when the page loads: every test UNTESTED, nothing written to
\* the socket, no call answered.
BackendStarts ==
    [ states |-> [p \in TreePaths |-> [status |-> "UNTESTED", error_msg |-> ""]],
      socket |-> <<>>, statesReplies |-> <<>> ]

\* The state after `new cros.factory.Goofy()` and init(): the socket is
\* connecting; the test list, the system info and the test list options
\* have been asked for.  (The call for ui_lang sets the language, which is
\* not modelled.)  The clock is not the controller's: it starts at 0 here
\* and a reload leaves it as it is.
Constructed ==
    [ wsIsOpen |-> FALSE, wsOpened |-> FALSE, uuid |-> Null,
      reloading |-> FALSE, invocations |-> <<>>,
      objs |-> <<>>, mainChildren |-> {},
      pathNodeMap |-> <<>>, pathTestMap |-> <<>>,
      rpcPending |-> {GetTestList, GetSystemInfo, GetTestListOptions},
      collapseTimers |-> {}, autoCollapse |-> AUTO_COLLAPSE,
      engineeringMode |-> FALSE, engineeringPasswordSHA1 |-> "?",
      engineeringModeDialog |-> NoObject, prompts |-> <<>>,
      shutdownDialog |-> NoObject, shutdownDialogs |-> <<>>,
      now |-> 0, contextMenuVisible |-> FALSE, menus |-> <<>>,
      infoTooltip |-> <<"Version information not yet available.">>,
      backend |-> BackendStarts,
      effects |-> <<>>, evals |-> <<>> ]

Init ==
    /\ wsIsOpen = Constructed.wsIsOpen
    /\ wsOpened = Constructed.wsOpened
    /\ uuid = Constructed.uuid
    /\ reloading = Constructed.reloading
    /\ invocations = Constructed.invocations
    /\ objs = Constructed.objs
    /\ mainChildren = Constructed.mainChildren
    /\ pathNodeMap = Constructed.pathNodeMap
    /\ pathTestMap = Constructed.pathTestMap
    /\ rpcPending = Constructed.rpcPending
    /\ collapseTimers = Constructed.collapseTimers
    /\ autoCollapse = Constructed.autoCollapse
    /\ engineeringMode = Constructed.engineeringMode
    /\ engineeringPasswordSHA1 = Constructed.engineeringPasswordSHA1
    /\ engineeringModeDialog = Constructed.engineeringModeDialog
    /\ prompts = Constructed.prompts
    /\ shutdownDialog = Constructed.shutdownDialog
    /\ shutdownDialogs = Constructed.shutdownDialogs
    /\ now = Constructed.now
    /\ contextMenuVisible = Constructed.contextMenuVisible
    /\ menus = Constructed.menus
    /\ infoTooltip = Constructed.infoTooltip
    /\ backend = Constructed.backend
    /\ effects = Constructed.effects
    /\ evals = Constructed.evals
    /\ tasks = NewTaskQueue.tasks
    /\ taskBodies = NewTaskQueue.taskBodies
    /\ taskResolves = NewTaskQueue.taskResolves
    /\ requests = NewTaskQueue.requests
    /\ promises = NewTaskQueue.promises
    /\ nextTaskID = NewTaskQueue.nextTaskID
    /\ touchscreenTest = NoTouchscreenTest
    /\ last = [type |-> "window:load"]
    /\ htmlLog = <<>>

(***************************************************************************)
(* Sending.                                                                *)
(***************************************************************************)
\* sendEvent(type, properties): the properties with the type added go to
\* this.ws.send.  The socket is an output of the controller: what was handed
\* to it is kept only as an effect of the handler that sent it.
SendEvent(s, type, properties) ==
    LET dict == [k \in DOMAIN properties \cup {"type"} |->
                    IF k = "type" THEN type ELSE properties[k]]
    IN  [s EXCEPT !.effects = Append(@, [op |-> "send", event |-> dict])]

\* keepAlive(): a keepalive with this.uuid, if the socket is open.
KeepAlive(s) ==
    IF s.wsIsOpen
        THEN SendEvent(s, "goofy:keepalive", [uuid |-> s.uuid])
        ELSE s

(***************************************************************************)
(* Invocations.                                                            *)
(***************************************************************************)
\* map[key] = value, the key added if it is new.
Put(map, key, value) ==
    [k \in DOMAIN map \cup {key} |-> IF k = key THEN value ELSE map[k]]

\* new cros.factory.Invocation(goofy, path, uuid): a blank iframe, appended
\* to #goofy-main.  The document of a new iframe is the initial about:blank,
\* which has an empty body.  goofyArgs and args are the properties
\* __goofy_args and args of its window.
NewInvocation(s, path, invocationUuid) ==
    LET obj == [ path |-> path, uuid |-> invocationUuid, iframe |-> TRUE,
                 hasBody |-> TRUE, body |-> <<>>, goofyArgs |-> Undefined,
                 args |-> Undefined ]
        i == Len(s.objs) + 1
    IN  [s EXCEPT !.objs = Append(@, obj),
                  !.mainChildren = @ \cup {i},
                  !.effects = Append(@, [op |-> "appendChild", obj |-> i])]

\* getOrCreateInvocation testing the entry for falsiness instead of the key
\* for presence: a run id whose Invocation was disposed gets a new one.
GetOrCreateIfFalsy(s, path, invocationUuid) ==
    IF \/ invocationUuid \notin DOMAIN s.invocations
       \/ s.invocations[invocationUuid] = NoObject
        THEN LET s1 == NewInvocation(s, path, invocationUuid)
             IN  [s1 EXCEPT !.invocations =
                                Put(@, invocationUuid, Len(s1.objs))]
        ELSE s

\* getOrCreateInvocation looking for a live Invocation of the path before
\* making one: a second run of a test gets the iframe of the first.
GetOrCreateByPath(s, path, invocationUuid) ==
    IF invocationUuid \notin DOMAIN s.invocations
        THEN LET samePath == {i \in 1..Len(s.objs) :
                                 s.objs[i].iframe /\ s.objs[i].path = path}
             IN  IF samePath # {}
                     THEN [s EXCEPT !.invocations =
                              Put(@, invocationUuid,
                                  CHOOSE i \in samePath : TRUE)]
                     ELSE LET s1 == NewInvocation(s, path, invocationUuid)
                          IN  [s1 EXCEPT !.invocations =
                                  Put(@, invocationUuid, Len(s1.objs))]
        ELSE s

\* getOrCreateInvocation(path, invocationUuid): the state afterwards; the
\* value returned is invocations[invocationUuid] of that state.
GetOrCreateInvocation(s, path, invocationUuid) ==
    IF invocationUuid \notin DOMAIN s.invocations
        THEN LET s1 == NewInvocation(s, path, invocationUuid)
             IN  [s1 EXCEPT !.invocations =
                                Put(@, invocationUuid, Len(s1.objs))]
        ELSE s

\* dispose that leaves the entry of the run id in this.invocations.
DisposeKeepsEntry(s, i) ==
    IF s.objs[i].iframe
        THEN [s EXCEPT !.mainChildren = @ \ {i},
                       !.effects = Append(@, [op |-> "removeNode", obj |-> i]),
                       !.objs[i].iframe = FALSE]
        ELSE s

\* dispose without its test of this.iframe.
DisposeUnguarded(s, i) ==
    [s EXCEPT !.mainChildren = @ \ {i},
              !.effects = Append(@, [op |-> "removeNode", obj |-> i]),
              !.invocations = Put(@, s.objs[i].uuid, NoObject),
              !.objs[i].iframe = FALSE]

\* dispose that deletes the entry of the run id from this.invocations.
DisposeDeletesEntry(s, i) ==
    IF s.objs[i].iframe
        THEN [s EXCEPT !.mainChildren = @ \ {i},
                       !.effects = Append(@, [op |-> "removeNode", obj |-> i]),
                       !.invocations =
                           [u \in DOMAIN @ \ {s.objs[i].uuid} |-> @[u]],
                       !.objs[i].iframe = FALSE]
        ELSE s

\* Invocation.prototype.dispose, of the object objs[i].
Dispose(s, i) ==
    IF s.objs[i].iframe
        THEN [s EXCEPT !.mainChildren = @ \ {i},
                       !.effects = Append(@, [op |-> "removeNode", obj |-> i]),
                       !.invocations = Put(@, s.objs[i].uuid, NoObject),
                       !.objs[i].iframe = FALSE]
        ELSE s

(***************************************************************************)
(* The API given to the code of a test (window.test of its iframe).        *)
(***************************************************************************)
\* pass() that disposes of the Invocation before it sends the event.
TestPassDisposesFirst(s, i) ==
    SendEvent(Dispose(s, i), "goofy:end_test",
              [ status |-> "PASSED",
                invocation |-> s.objs[i].uuid,
                test |-> s.objs[i].path ])

\* Test.prototype.pass, of the test of objs[i].
TestPass(s, i) ==
    LET s1 == SendEvent(s, "goofy:end_test",
                        [ status |-> "PASSED",
                          invocation |-> s.objs[i].uuid,
                          test |-> s.objs[i].path ])
    IN  Dispose(s1, i)

\* Test.prototype.fail.
TestFail(s, i, errorMsg) ==
    LET s1 == SendEvent(s, "goofy:end_test",
                        [ status |-> "FAILED",
                          error_msg |-> errorMsg,
                          invocation |-> s.objs[i].uuid,
                          test |-> s.objs[i].path ])
    IN  Dispose(s1, i)

\* Test.prototype.sendTestEvent.
TestSendTestEvent(s, i, subtype, data) ==
    SendEvent(s, "goofy:test_ui_event",
              [ test |-> s.objs[i].path,
                invocation |-> s.objs[i].uuid,
                subtype |-> subtype,
                data |-> data ])

(***************************************************************************)
(* The test tree.                                                          *)
(***************************************************************************)
\* goog.ui.tree.BaseNode.reveal: expands every ancestor of the node.
RECURSIVE Reveal(_, _)
Reveal(nodes, path) ==
    IF path = ""
        THEN nodes
        ELSE Reveal([nodes EXCEPT ![ParentPath(path)].expanded = TRUE],
                    ParentPath(path))

\* addRemove that removes nothing.
AddRemoveKeepsOld(classes, classesToRemove, classToAdd) ==
    classes \cup {classToAdd}

\* goog.dom.classes.addRemove(elt, classesToRemove, classesToAdd).
AddRemove(classes, classesToRemove, classToAdd) ==
    (classes \ classesToRemove) \cup {classToAdd}

\* The classes setTestState removes: those that start with goofy-status-.
StatusClassesOf(classes) ==
    {cls \in classes : StartsWith(cls, StatusPrefix)}

\* setTestState that makes the state of a path it does not know.
SetTestStateAddsPath(s, path, state) ==
    IF path \in DOMAIN s.pathTestMap
        THEN [s EXCEPT !.pathTestMap[path].state = state]
        ELSE [s EXCEPT !.pathTestMap =
                 Put(@, path, [ path |-> path, subtests |-> <<>>,
                                kbd_shortcut |-> Undefined,
                                state |-> state ])]

\* setTestState(path, state).  For a path that is not a test,
\* this.pathNodeMap[path] is undefined and the function returns, unless the
\* path names an inherited property: that value is truthy and has no
\* getElement, and the call of it throws before anything is set.
SetTestState(s, path, state) ==
    IF path \notin DOMAIN s.pathNodeMap
        THEN IF path \in ObjectPrototypeKeys
                 THEN [s EXCEPT !.effects = Append(@, [op |-> "throw"])]
                 ELSE s
        ELSE LET classes == s.pathNodeMap[path].classes
                 s1 == [s EXCEPT
                          !.pathTestMap[path].state = state,
                          !.pathNodeMap[path].classes =
                              AddRemove(classes, StatusClassesOf(classes),
                                        <<StatusPrefix,
                                          ToLowerCase(state.status)>>)]
             IN  IF state.status = "ACTIVE"
                     THEN [s1 EXCEPT !.pathNodeMap = Reveal(@, path)]
                 ELSE IF s.autoCollapse
                         /\ Len(s.pathTestMap[path].subtests) # 0
                     THEN [s1 EXCEPT !.collapseTimers = @ \cup {path}]
                 ELSE s1

\* The timeout that collapses the node whatever its test is then.
CollapseTimeoutAlways(s, path) ==
    [s EXCEPT !.collapseTimers = @ \ {path},
              !.pathNodeMap[path].expanded = FALSE]

\* The timeout of setTestState, 250 ms later: the node collapses if its test
\* is not ACTIVE then.
CollapseTimeout(s, path) ==
    LET s1 == [s EXCEPT !.collapseTimers = @ \ {path}]
    IN  IF s.pathTestMap[path].state.status # "ACTIVE"
            THEN [s1 EXCEPT !.pathNodeMap[path].expanded = FALSE]
            ELSE s1

\* addToNode(parent, test), for the test at `path` of the list and all
\* below it.
RECURSIVE AddToNode(_, _, _)
RECURSIVE AddSubtests(_, _, _, _)
AddSubtests(s, testList, subtests, k) ==
    IF k > Len(subtests)
        THEN s
        ELSE AddSubtests(AddToNode(s, testList, subtests[k]),
                         testList, subtests, k + 1)

AddToNode(s, testList, path) ==
    LET s1 == AddSubtests(s, testList, testList[path].subtests, 1)
    IN  [s1 EXCEPT
           !.pathNodeMap =
               Put(@, path, [classes |-> TreeRowClasses, expanded |-> TRUE]),
           !.pathTestMap =
               Put(@, path, [ path |-> path,
                              subtests |-> testList[path].subtests,
                              kbd_shortcut |-> testList[path].kbd_shortcut,
                              state |-> NoState ])]

\* sendRpc(method, args, callback): the call is out until its reply comes.
SendRpc(s, method, args, callback) ==
    [s EXCEPT !.rpcPending = @ \cup {RpcCall(method, args, callback)}]

\* setTestList(testList): the nodes are made (expanded, so that their
\* elements exist), then all collapsed, then the states are asked for.
SetTestList(s, testList) ==
    LET s1 == AddToNode(s, testList, "")
        s2 == [s1 EXCEPT !.pathNodeMap =
                  [p \in DOMAIN @ |-> [@[p] EXCEPT !.expanded = FALSE]]]
    IN  SendRpc(s2, GetTestStates.method, GetTestStates.params,
                GetTestStates.callback)

\* goog.string.startsWith(path, "_"), for the keys of a state map.
StartsWithUnderscore(key) == key \in {"__jsonclass__"}

\* The callback of get_test_states: setTestState for every key of the map
\* that does not start with "_".
RECURSIVE SetTestStates(_, _, _)
SetTestStates(s, stateMap, keys) ==
    IF keys = {}
        THEN s
        ELSE LET path == CHOOSE k \in keys : TRUE
                 s1 == IF ~StartsWithUnderscore(path)
                           THEN SetTestState(s, path, stateMap[path])
                           ELSE s
             IN  SetTestStates(s1, stateMap, keys \ {path})

(***************************************************************************)
(* JavaScript numbers, for the quotient of the countdown: a ratio of two   *)
(* integers with a positive denominator, an infinity, or NaN.              *)
(***************************************************************************)
NaN == [kind |-> "NaN", num |-> 0, den |-> 1]
PositiveInfinity == [kind |-> "Infinity", num |-> 1, den |-> 1]
NegativeInfinity == [kind |-> "-Infinity", num |-> -1, den |-> 1]
Finite(n, d) == [kind |-> "finite", num |-> n, den |-> d]

\* n / d of two integers: a division by zero gives an infinity, 0 / 0 NaN.
Divide(n, d) ==
    IF d = 0
        THEN IF n > 0 THEN PositiveInfinity
             ELSE IF n < 0 THEN NegativeInfinity
             ELSE NaN
    ELSE IF d < 0 THEN Finite(-n, -d)
    ELSE Finite(n, d)

\* a < b, for two numbers that are not NaN.
LessThan(a, b) ==
    CASE a.kind = "-Infinity" -> b.kind # "-Infinity"
      [] a.kind = "Infinity" -> FALSE
      [] b.kind = "-Infinity" -> FALSE
      [] b.kind = "Infinity" -> TRUE
      [] OTHER -> a.num * b.den < b.num * a.den

\* Math.max and Math.min: NaN if an argument is NaN.
MathMax(a, b) ==
    IF a.kind = "NaN" \/ b.kind = "NaN" THEN NaN
    ELSE IF LessThan(a, b) THEN b ELSE a

MathMin(a, b) ==
    IF a.kind = "NaN" \/ b.kind = "NaN" THEN NaN
    ELSE IF LessThan(b, a) THEN b ELSE a

\* goog.math.clamp(value, min, max): Math.min(Math.max(value, min), max).
Clamp(value, min, max) == MathMin(MathMax(value, min), max)

\* value * 100.
TimesHundred(value) ==
    IF value.kind = "finite" THEN Finite(value.num * 100, value.den) ELSE value

(***************************************************************************)
(* The shutdown countdown.  Times are whole numbers of clock units, of     *)
(* which a second has UnitsPerSecond.                                      *)
(***************************************************************************)
\* The sequence without its i-th element.
RemoveAt(seq, i) ==
    [j \in 1..(Len(seq) - 1) |-> IF j < i THEN seq[j] ELSE seq[j + 1]]

\* Math.round in the place of Math.floor.
Round(units) == (2 * units + UnitsPerSecond) \div (2 * UnitsPerSecond)

\* Math.floor of a time that is not negative, in seconds.
Floor(units) == units \div UnitsPerSecond

\* The larger of two integers.
Max(a, b) == IF a >= b THEN a ELSE b

\* The text of the dialog: the verb and the count of iterations.
ShutdownContent(shutdownInfo) ==
    [ verbEn |-> IF shutdownInfo.operation = "reboot"
                     THEN "Rebooting" ELSE "Shutting down",
      timesEn |-> IF shutdownInfo.iterations = 1
                      THEN <<"once">>
                      ELSE <<shutdownInfo.iteration, " of ",
                             shutdownInfo.iterations, " times">> ]

\* A HIDE listener that leaves the timer running.
OnHideLeavesTimer(s, k) == s

\* The HIDE listener of the dialog shutdownDialogs[k]: timer.dispose(), of
\* the timer that setPendingShutdown started for that dialog.
OnHide(s, k) == [s EXCEPT !.shutdownDialogs[k].timer = FALSE]

\* The dialog left as it is, shown and with its timer running: only the
\* reference to it is dropped afterwards.
ForgetShutdownDialog(s) == s

\* shutdownDialog.setVisible(false), which dispatches HIDE to the listener
\* of the dialog, and shutdownDialog.dispose(), which takes the dialog out
\* of the document.  A dialog that is out of the document is kept in
\* shutdownDialogs, not visible, for as long as its timer runs: the tick
\* function of the timer still refers to it.
HideAndDispose(s) ==
    LET k == s.shutdownDialog
        s1 == OnHide([s EXCEPT !.shutdownDialogs[k].visible = FALSE], k)
    IN  [s1 EXCEPT !.shutdownDialogs = IF @[k].timer THEN @
                                                      ELSE RemoveAt(@, k),
                   !.effects = Append(@, [op |-> "disposeDialog"])]

\* setPendingShutdown that shows a dialog whatever the event carries.
SetPendingShutdownAlwaysShows(s, shutdownInfo) ==
    LET s1 == IF s.shutdownDialog # NoObject
                  THEN [HideAndDispose(s) EXCEPT !.shutdownDialog = NoObject]
                  ELSE s
        dialog == [ info |-> shutdownInfo,
                    content |-> ShutdownContent(shutdownInfo),
                    visible |-> TRUE, timer |-> TRUE,
                    secs |-> 0, plural |-> "", progress |-> Finite(0, 1) ]
        s2 == [s1 EXCEPT !.shutdownDialogs = Append(@, dialog),
                         !.effects = Append(@, [op |-> "showDialog"])]
    IN  [s2 EXCEPT !.shutdownDialog = Len(s2.shutdownDialogs)]

\* setPendingShutdown(shutdownInfo).  A time that is missing and a time of
\* 0 are both falsy, and both are the time 0 here.  this.dialog is never
\* assigned, so that closeDialog() does nothing.  A new dialog shows empty
\* spans (secs 0 here) and an empty progress bar until its timer ticks.
SetPendingShutdown(s, shutdownInfo) ==
    LET s1 == IF s.shutdownDialog # NoObject
                  THEN [HideAndDispose(s) EXCEPT !.shutdownDialog = NoObject]
                  ELSE s
    IN  IF shutdownInfo.time = 0
            THEN s1
            ELSE LET dialog == [ info |-> shutdownInfo,
                                 content |-> ShutdownContent(shutdownInfo),
                                 visible |-> TRUE, timer |-> TRUE,
                                 secs |-> 0, plural |-> "",
                                 progress |-> Finite(0, 1) ]
                     s2 == [s1 EXCEPT
                              !.shutdownDialogs = Append(@, dialog),
                              !.effects = Append(@, [op |-> "showDialog"])]
                 IN  [s2 EXCEPT !.shutdownDialog = Len(s2.shutdownDialogs)]

\* The seconds left as a countdown that rounds up would show them.
SecondsLeftCeiling(endTime, clock) ==
    (Max(0, endTime - clock) + UnitsPerSecond - 1) \div UnitsPerSecond

\* var secondsLeft = 1 + Math.floor(Math.max(0, endTime - now)).
SecondsLeft(endTime, clock) == 1 + Floor(Max(0, endTime - clock))

\* The value given to progressBar.setValue.
Progress(startTime, endTime, clock) ==
    TimesHundred(Clamp(Divide(clock - startTime, endTime - startTime),
                       Finite(0, 1), Finite(1, 1)))

\* tick(), of the timer of the dialog shutdownDialogs[k]: the progress bar
\* of that dialog is set; the spans are found by class in the whole
\* document, so that those of every dialog in it are written.
Tick(s, k) ==
    LET shutdownInfo == s.shutdownDialogs[k].info
        startTime == shutdownInfo.time - shutdownInfo.delay_secs
        endTime == shutdownInfo.time
        secondsLeft == SecondsLeft(endTime, s.now)
    IN  [s EXCEPT !.shutdownDialogs =
            [j \in DOMAIN @ |->
                [@[j] EXCEPT
                    !.progress = IF j = k
                                     THEN Progress(startTime, endTime, s.now)
                                     ELSE @,
                    !.secs = secondsLeft,
                    !.plural = IF secondsLeft = 1 THEN "" ELSE "s"]]]

\* onKey that also takes the dialog down.
ShutdownOnKeyCloses(s, e) ==
    IF e.keyCode = KeyCodes.ESC
        THEN LET s1 == SendEvent(s, "goofy:cancel_shutdown", <<>>)
             IN  [HideAndDispose(s1) EXCEPT !.shutdownDialog = NoObject]
        ELSE s

\* onKey(e), the KEYDOWN listener of the element of the shutdown dialog.
ShutdownOnKey(s, e) ==
    IF e.keyCode = KeyCodes.ESC
        THEN SendEvent(s, "goofy:cancel_shutdown", <<>>)
        ELSE s

(***************************************************************************)
(* Engineering mode.                                                       *)
(***************************************************************************)
\* goog.crypt.byteArrayToHex(new goog.crypt.Sha1().update(text).digest()):
\* the SHA-1 digests of the texts an operator enters here, in lower-case
\* hexadecimal.
Sha1Hex(text) ==
    CASE text = "secret" -> "e5e9fa1ba31ecd1ae84f75caaa474f3a663f05f4"
      [] text = "guess" -> "77361fca965b3e53ff81a5d48525ca8adb8a9b87"
      [] text = "0" -> "b6589fc6ab0dc82cf12099d1c2d40ab994e8410c"
      [] OTHER -> "da39a3ee5e6b4b0d3255bfef95601890afd80709"

\* What an operator may leave in the prompt: nothing, the password, other
\* texts.  Null is the prompt cancelled.
Texts == {"", "secret", "guess"}

\* options['engineering_password_sha1']: no password (null), or the digest
\* of the password.
PasswordHashes == {Null, Sha1Hex("secret")}

\* !value, for a string or null.
Not(value) == value \in {Null, Undefined, ""}

\* alert(messageHtml): a dialog with the message and an OK button.
Alert(s, messageHtml) ==
    [s EXCEPT !.effects = Append(@, [op |-> "alert", message |-> messageHtml])]

\* setEngineeringMode(enabled).
SetEngineeringMode(s, enabled) == [s EXCEPT !.engineeringMode = enabled]

\* The callback of the prompt with the digest never compared.
PromptCallbackAcceptsAll(s, text) ==
    IF Not(text) THEN s ELSE SetEngineeringMode(s, TRUE)

\* The callback of the prompt with a mismatch that locks the operator out:
\* the stored hash becomes the placeholder no digest equals.
PromptCallbackLocksOut(s, text) ==
    IF Not(text)
        THEN s
        ELSE IF Sha1Hex(text) = s.engineeringPasswordSHA1
                 THEN SetEngineeringMode(s, TRUE)
                 ELSE Alert([s EXCEPT !.engineeringPasswordSHA1 = "?"],
                            "Incorrect password.")

\* The callback given to goog.ui.Prompt, called with the text entered, or
\* with null when the prompt is cancelled.
PromptCallback(s, text) ==
    IF Not(text)
        THEN s
        ELSE LET digest == Sha1Hex(text)
             IN  IF digest = s.engineeringPasswordSHA1
                     THEN SetEngineeringMode(s, TRUE)
                     ELSE Alert(s, "Incorrect password.")

\* promptEngineeringPassword() with the engineering mode looked at before
\* the stored hash: the key turns the mode off whether or not a password
\* could turn it on again.
PromptEngineeringPasswordTogglesFirst(s) ==
    LET s1 == IF s.engineeringModeDialog # NoObject
                  THEN [s EXCEPT
                          !.prompts = RemoveAt(@, s.engineeringModeDialog),
                          !.engineeringModeDialog = NoObject]
                  ELSE s
    IN  IF s1.engineeringMode
            THEN SetEngineeringMode(s1, FALSE)
        ELSE IF Not(s1.engineeringPasswordSHA1)
            THEN Alert(s1, "No password has been set.")
        ELSE LET s2 == [s1 EXCEPT !.prompts = Append(@, [visible |-> TRUE])]
             IN  [s2 EXCEPT !.engineeringModeDialog = Len(s2.prompts)]

\* promptEngineeringPassword() with the prompt of before left as it is.
PromptEngineeringPasswordKeepsOld(s) ==
    IF Not(s.engineeringPasswordSHA1)
        THEN Alert(s, "No password has been set.")
    ELSE IF s.engineeringMode
        THEN SetEngineeringMode(s, FALSE)
    ELSE LET s2 == [s EXCEPT !.prompts = Append(@, [visible |-> TRUE])]
         IN  [s2 EXCEPT !.engineeringModeDialog = Len(s2.prompts)]

\* promptEngineeringPassword().
PromptEngineeringPassword(s) ==
    LET s1 == IF s.engineeringModeDialog # NoObject
                  THEN [s EXCEPT
                          !.prompts = RemoveAt(@, s.engineeringModeDialog),
                          !.engineeringModeDialog = NoObject]
                  ELSE s
    IN  IF Not(s1.engineeringPasswordSHA1)
            THEN Alert(s1, "No password has been set.")
        ELSE IF s1.engineeringMode
            THEN SetEngineeringMode(s1, FALSE)
        ELSE LET s2 == [s1 EXCEPT !.prompts = Append(@, [visible |-> TRUE])]
             IN  [s2 EXCEPT !.engineeringModeDialog = Len(s2.prompts)]

\* The callback of the options that stores the hash and leaves the mode.
SetTestListOptionsKeepsMode(s, options) ==
    [s EXCEPT !.engineeringPasswordSHA1 = options.engineering_password_sha1]

\* The callback of get_shared_data(['test_list_options']) in init().
SetTestListOptions(s, options) ==
    LET s1 == [s EXCEPT !.engineeringPasswordSHA1 =
                            options.engineering_password_sha1]
    IN  SetEngineeringMode(s1, s1.engineeringPasswordSHA1 \in {Null, Undefined})

(***************************************************************************)
(* The system info.                                                        *)
(***************************************************************************)
\* cros.factory.SYSTEM_INFO_LABELS: the keys, in order, and whether the
\* item has a transform.
SYSTEM_INFO_LABELS ==
    << [key |-> "serial_number", transform |-> FALSE],
       [key |-> "factory_image_version", transform |-> FALSE],
       [key |-> "wlan0_mac", transform |-> FALSE],
       [key |-> "kernel_version", transform |-> FALSE],
       [key |-> "ec_version", transform |-> FALSE],
       [key |-> "firmware_version", transform |-> FALSE],
       [key |-> "factory_md5sum", transform |-> TRUE] >>

\* goog.string.htmlEscape, on the values sent here.
HtmlEscape(value) ==
    CASE value = "A&B" -> "A&amp;B"
      [] OTHER -> value

\* setSystemInfo(systemInfo): a row for every label.
SetSystemInfo(s, systemInfo) ==
    LET Value(key) == IF key \in DOMAIN systemInfo
                          THEN systemInfo[key] ELSE Undefined
        Html(item) ==
            IF item.transform
                THEN IF Not(Value(item.key))
                         THEN "(no update)" ELSE Value(item.key)
                ELSE IF Value(item.key) \in {Null, Undefined}
                         THEN "Unknown" ELSE HtmlEscape(Value(item.key))
    IN  [s EXCEPT !.infoTooltip =
            [k \in DOMAIN SYSTEM_INFO_LABELS |->
                <<SYSTEM_INFO_LABELS[k].key, Html(SYSTEM_INFO_LABELS[k])>>]]

(***************************************************************************)
(* The context menu and the keyboard shortcuts.                            *)
(***************************************************************************)
\* The paths of the subtree of a test, the test first: allPaths of
\* countLeaves.
RECURSIVE AllPaths(_, _)
RECURSIVE AllPathsOf(_, _, _)
AllPathsOf(tests, subtests, k) ==
    IF k > Len(subtests)
        THEN <<>>
        ELSE AllPaths(tests, subtests[k]) \o AllPathsOf(tests, subtests, k + 1)

AllPaths(tests, path) ==
    <<path>> \o AllPathsOf(tests, tests[path].subtests, 1)

\* The elements of a sequence.
Range(seq) == {seq[k] : k \in DOMAIN seq}

\* makeMenuItem that leaves every item enabled.
MakeMenuItemAlwaysEnabled(name, verbEn, count, event) ==
    [ name |-> name, verbEn |-> verbEn, count |-> count,
      enabled |-> TRUE, event |-> event ]

\* makeMenuItem(...): the item, enabled if its count is not 0, and the
\* event its handler sends.
MakeMenuItem(name, verbEn, count, event) ==
    [ name |-> name, verbEn |-> verbEn, count |-> count,
      enabled |-> count # 0, event |-> event ]

\* countLeaves that records a status without adding to its count.
NumLeavesByStatusNoSum(tests, leaves, status) ==
    IF \E p \in leaves : tests[p].state.status = status THEN 1 ELSE 0

\* numLeavesByStatus[status] || 0, after countLeaves(test) went through the
\* leaves of the subtree.
NumLeavesByStatus(tests, leaves, status) ==
    Cardinality({p \in leaves : tests[p].state.status = status})

\* showTestPopup(path, labelElement, extraItems).  Reading the status of a
\* leaf that has no state yet throws: the handler ends there, after
\* contextMenuVisible was set, and no menu is rendered.
ShowTestPopup(s, path, extraItems) ==
    LET s1 == [s EXCEPT !.contextMenuVisible = TRUE]
        test == s.pathTestMap[path]
        leaves == {p \in Range(AllPaths(s.pathTestMap, path)) :
                      Len(s.pathTestMap[p].subtests) = 0}
        numLeaves == Cardinality(leaves)
        numLeavesByStatus(status) ==
            NumLeavesByStatus(s.pathTestMap, leaves, status)
        allUntested == numLeavesByStatus("UNTESTED") = numLeaves
        restartOrRunEn ==
            <<IF allUntested THEN "Run" ELSE "Restart">>
                \o (IF numLeaves > 1 THEN <<" all">> ELSE <<>>)
        all == MakeMenuItem("restart_or_run", restartOrRunEn, numLeaves,
                            [type |-> "goofy:restart_tests", path |-> path])
        notPassed ==
            MakeMenuItem("restart_not_passed", <<"Restart">>,
                         numLeavesByStatus("UNTESTED")
                             + numLeavesByStatus("ACTIVE")
                             + numLeavesByStatus("FAILED"),
                         [ type |-> "goofy:run_tests_with_status",
                           status |-> <<"UNTESTED", "ACTIVE", "FAILED">>,
                           path |-> path ])
        untested ==
            MakeMenuItem("run_untested", <<"Run">>,
                         numLeavesByStatus("UNTESTED")
                             + numLeavesByStatus("ACTIVE"),
                         [type |-> "goofy:auto_run", path |-> path])
        stop == MakeMenuItem("stop", <<"Stop">>, numLeavesByStatus("ACTIVE"),
                             [type |-> "goofy:stop"])
        items == extraItems
                     \o <<all>>
                     \o (IF Len(test.subtests) # 0
                             THEN <<notPassed, untested>> ELSE <<>>)
                     \o <<stop>>
    IN  IF \E p \in leaves : s.pathTestMap[p].state.status = Undefined
            THEN [s1 EXCEPT !.effects = Append(@, [op |-> "throw"])]
            ELSE [s1 EXCEPT !.menus = Append(@, [path |-> path,
                                                 items |-> items])]

\* The item of the menu of the title: 'Update factory software'.
UpdateItem ==
    [ name |-> "update_factory", verbEn |-> <<"Update factory software">>,
      count |-> 0, enabled |-> TRUE,
      event |-> [type |-> "goofy:update_factory"] ]

\* The ACTION listener of an item: its event is sent.
MenuItemAction(s, item) ==
    [s EXCEPT !.effects = Append(@, [op |-> "send", event |-> item.event])]

\* The HIDE listener of a menu: the menu is disposed of.
MenuHide(s, m) ==
    [s EXCEPT !.menus = RemoveAt(@, m), !.contextMenuVisible = FALSE]

\* The order of `for (var path in this.pathTestMap)`: that in which
\* addToNode set the keys, every test after the tests below it.
RECURSIVE InsertionOrder(_, _)
RECURSIVE InsertionOrderOf(_, _, _)
InsertionOrderOf(tests, subtests, k) ==
    IF k > Len(subtests)
        THEN <<>>
        ELSE InsertionOrder(tests, subtests[k])
                 \o InsertionOrderOf(tests, subtests, k + 1)

InsertionOrder(tests, path) ==
    IF path \in DOMAIN tests
        THEN InsertionOrderOf(tests, tests[path].subtests, 1) \o <<path>>
        ELSE <<>>

\* handleShortcut(key): restart_tests for the first test with the shortcut.
HandleShortcut(s, key) ==
    LET paths == InsertionOrder(s.pathTestMap, "")
        matches == {k \in DOMAIN paths :
                       LET test == s.pathTestMap[paths[k]]
                       IN  /\ ~Not(test.kbd_shortcut)
                           /\ ToLowerCase(test.kbd_shortcut) = ToLowerCase(key)}
    IN  IF matches = {}
            THEN s
            ELSE LET k == CHOOSE k \in matches : \A j \in matches : k <= j
                 IN  SendEvent(s, "goofy:restart_tests", [path |-> paths[k]])

\* The KEYDOWN listeners of the window, in the order they were added: the
\* one of the constructor (Ctrl-Alt-0 prompts for the password; Ctrl-Alt-1
\* enables the debug window), then the one of init().
WindowKeyDown(s, event) ==
    LET s1 == IF /\ event.altKey /\ event.ctrlKey
                 /\ FromCharCode(event.keyCode) = "0"
                  THEN PromptEngineeringPassword(s)
                  ELSE s
    IN  IF event.altKey \/ event.ctrlKey
            THEN HandleShortcut(s1, FromCharCode(event.keyCode))
            ELSE s1

(***************************************************************************)
(* Replies to the RPC calls.                                               *)
(***************************************************************************)
\* sendRpc with the callback kept in one place for all calls: a reply runs
\* the callback of the call that was sent last.
RpcCallbackOfLastCall(s, rpc) ==
    IF DOMAIN s.pathTestMap # {}
        THEN GetTestStates.callback
        ELSE GetTestListOptions.callback

\* The `callback` of the closure sendRpc gave to goog.net.XhrIo.send for
\* this call.
RpcCallback(s, rpc) == rpc.callback

\* callback.call(factoryThis, result), for the result of the call `rpc`.
\* Each function is given here the results of its own kind as the source
\* treats them; a result of another kind is read as JavaScript reads it:
\* setTestList throws on an object without subtests, setSystemInfo and the
\* function of the options find none of their keys, and the function of
\* the states finds no key that is a path.
CallCallback(s, callback, rpc, result) ==
    CASE callback = GetTestList.callback ->
             IF rpc.method = "get_test_list"
                 THEN SetTestList(s, result)
                 ELSE [s EXCEPT !.effects = Append(@, [op |-> "throw"])]
      [] callback = GetSystemInfo.callback ->
             IF rpc.method = "get_shared_data" /\ rpc.params = <<"system_info">>
                 THEN SetSystemInfo(s, result)
                 ELSE SetSystemInfo(s, [k \in {} |-> ""])
      [] callback = GetTestListOptions.callback ->
             IF /\ rpc.method = "get_shared_data"
                /\ rpc.params = <<"test_list_options">>
                 THEN SetTestListOptions(s, result)
                 ELSE SetTestListOptions(
                          s, [engineering_password_sha1 |-> Undefined])
      [] callback = GetTestStates.callback ->
             IF rpc.method = "get_test_states"
                 THEN SetTestStates(s, result, DOMAIN result)
                 ELSE s

\* The function sendRpc gives to XhrIo.send, run when the response of the
\* call has come: the call is no longer out, and the callback gets the
\* result.
XhrComplete(s, rpc, result) ==
    CallCallback([s EXCEPT !.rpcPending = @ \ {rpc}],
                 RpcCallback(s, rpc), rpc, result)

(***************************************************************************)
(* Events from the backend.                                                *)
(***************************************************************************)
\* hello that adopts whatever id it is given.
HelloAdoptsAnyId(s, message) ==
    KeepAlive([s EXCEPT !.uuid = message.uuid])

\* hello that sends its keepalive before it records the id.
HelloKeepAliveFirst(s, message) ==
    IF s.uuid # Null /\ message.uuid # s.uuid
        THEN [s EXCEPT !.reloading = TRUE]
        ELSE [KeepAlive(s) EXCEPT !.uuid = message.uuid]

\* goofy:hello.
Hello(s, message) ==
    IF s.uuid # Null /\ message.uuid # s.uuid
        THEN \* The goofy process has changed: window.location.reload().
             [s EXCEPT !.reloading = TRUE]
        ELSE KeepAlive([s EXCEPT !.uuid = message.uuid])

\* set_html that never clears the body.
SetHtmlNeverClears(s, message) ==
    LET s1 == GetOrCreateInvocation(s, message.test, message.invocation)
        i == s1.invocations[message.invocation]
    IN  IF i # NoObject
            THEN [s1 EXCEPT !.objs[i].body = Append(@, message.html),
                            !.objs[i].hasBody = TRUE]
            ELSE s1

\* goofy:set_html.
SetHtml(s, message) ==
    LET s1 == GetOrCreateInvocation(s, message.test, message.invocation)
        i == s1.invocations[message.invocation]
    IN  IF i # NoObject
            THEN LET cleared ==
                         IF ~message.append /\ s1.objs[i].hasBody
                             THEN <<>>
                             ELSE s1.objs[i].body
                 IN  [s1 EXCEPT !.objs[i].body = Append(cleared, message.html),
                                !.objs[i].hasBody = TRUE]
            ELSE s1

\* goofy:run_js.  contentWindow.eval is an indirect eval, which runs its
\* code as global code of the iframe: `var args = window.__goofy_args`
\* makes and sets the property args of the window of the iframe.  Code
\* that throws ends the handler where it threw, before the delete.
RunJs(s, message) ==
    LET s1 == GetOrCreateInvocation(s, message.test, message.invocation)
        i == s1.invocations[message.invocation]
    IN  IF i # NoObject
            THEN LET s2 == [s1 EXCEPT !.objs[i].goofyArgs = message.args,
                                      !.objs[i].args = message.args]
                 IN  IF message.js = "throw"
                         THEN [s2 EXCEPT !.evals = Append(@, [op |-> "throw"])]
                         ELSE [s2 EXCEPT !.objs[i].goofyArgs = Undefined]
            ELSE s1

\* contentWindow.eval(name) in an iframe: the function, undefined for a
\* property that is not there, a ReferenceError for an identifier that is
\* not declared.
EvalName(name) ==
    CASE name = "window.update" -> "function"
      [] name = "window.missing" -> "undefined"
      [] OTHER -> "ReferenceError"

\* goofy:call_js_function.  What the function does stays inside the iframe;
\* a name that evaluates to undefined is logged; the exception of a name
\* that cannot be evaluated ends the handler.
CallJsFunction(s, message) ==
    LET s1 == GetOrCreateInvocation(s, message.test, message.invocation)
        i == s1.invocations[message.invocation]
    IN  IF i = NoObject THEN s1
        ELSE IF EvalName(message.name) = "ReferenceError"
            THEN [s1 EXCEPT !.evals = Append(@, [op |-> "throw"])]
        ELSE IF EvalName(message.name) = "function"
            THEN [s1 EXCEPT !.evals = Append(@, [op |-> "apply", obj |-> i,
                                                  name |-> message.name])]
        ELSE [s1 EXCEPT !.evals = Append(@, [op |-> "severe"])]

\* destroy_test that also sets the test of the Invocation back to UNTESTED.
DestroyTestResetsState(s, message) ==
    IF /\ message.invocation \in DOMAIN s.invocations
       /\ s.invocations[message.invocation] # NoObject
        THEN LET i == s.invocations[message.invocation]
             IN  SetTestState(Dispose(s, i), s.objs[i].path,
                              [status |-> "UNTESTED", error_msg |-> ""])
        ELSE s

\* goofy:destroy_test.
DestroyTest(s, message) ==
    IF /\ message.invocation \in DOMAIN s.invocations
       /\ s.invocations[message.invocation] # NoObject
        THEN Dispose(s, s.invocations[message.invocation])
        ELSE s

\* handleBackendEvent that takes an event of a type it does not know as
\* a sign of a backend it cannot talk to, and reloads the page.
HandleBackendEventReloadsOnUnknown(s, message) ==
    IF message.type = "goofy:hello" THEN Hello(s, message)
    ELSE IF message.type = "goofy:log" THEN s
    ELSE IF message.type = "goofy:state_change"
        THEN SetTestState(s, message.path, message.state)
    ELSE IF message.type = "goofy:set_html" THEN SetHtml(s, message)
    ELSE IF message.type = "goofy:run_js" THEN RunJs(s, message)
    ELSE IF message.type = "goofy:call_js_function"
        THEN CallJsFunction(s, message)
    ELSE IF message.type = "goofy:destroy_test" THEN DestroyTest(s, message)
    ELSE IF message.type = "goofy:system_info"
        THEN SetSystemInfo(s, message.system_info)
    ELSE IF message.type = "goofy:pending_shutdown"
        THEN SetPendingShutdown(s, message)
    ELSE [s EXCEPT !.reloading = TRUE]

\* handleBackendEvent(jsonMessage), for the parsed message.
HandleBackendEvent(s, message) ==
    IF message.type = "goofy:hello" THEN Hello(s, message)
    ELSE IF message.type = "goofy:log" THEN s
    ELSE IF message.type = "goofy:state_change"
        THEN SetTestState(s, message.path, message.state)
    ELSE IF message.type = "goofy:set_html" THEN SetHtml(s, message)
    ELSE IF message.type = "goofy:run_js" THEN RunJs(s, message)
    ELSE IF message.type = "goofy:call_js_function"
        THEN CallJsFunction(s, message)
    ELSE IF message.type = "goofy:destroy_test" THEN DestroyTest(s, message)
    ELSE IF message.type = "goofy:system_info"
        THEN SetSystemInfo(s, message.system_info)
    ELSE IF message.type = "goofy:pending_shutdown"
        THEN SetPendingShutdown(s, message)
    ELSE s

(***************************************************************************)
(* The task queue of Dome (task/actions.js).  A task is a series of HTTP   *)
(* requests: the uploads of the files of its body, then its end request.   *)
(* _runTask is an async function: it runs to its first await when it is    *)
(* dispatched, and again from one await to the next when a reply arrives.  *)
(***************************************************************************)
\* TaskStates, of the constants of the task module.
TaskStates ==
    [ WAITING |-> "WAITING", RUNNING |-> "RUNNING",
      SUCCEEDED |-> "SUCCEEDED", FAILED |-> "FAILED" ]

\* The place of a task in the list of tasks, 0 if it is not there.
IndexOfTask(taskList, taskID) ==
    IF \E i \in DOMAIN taskList : taskList[i].taskID = taskID
        THEN CHOOSE i \in DOMAIN taskList : taskList[i].taskID = taskID
        ELSE 0

\* The reducer, CREATE_TASK: the task is added, WAITING.
CreateTask(taskList, taskID) ==
    IF IndexOfTask(taskList, taskID) # 0
        THEN [taskList EXCEPT
                 ![IndexOfTask(taskList, taskID)].state = TaskStates.WAITING]
        ELSE Append(taskList, [taskID |-> taskID, state |-> TaskStates.WAITING])

\* The reducer, CHANGE_TASK_STATE: setIn(['tasks', taskID, 'state'], state),
\* which makes the entry when there is none.
ChangeTaskState(taskList, taskID, state) ==
    IF IndexOfTask(taskList, taskID) # 0
        THEN [taskList EXCEPT ![IndexOfTask(taskList, taskID)].state = state]
        ELSE Append(taskList, [taskID |-> taskID, state |-> state])

\* The reducer, DISMISS_TASK: the task is taken out of the list.
RemoveTask(taskList, taskID) ==
    SelectSeq(taskList, LAMBDA task : task.taskID # taskID)

\* delete map[key].
Delete(map, key) == [k \in DOMAIN map \ {key} |-> map[k]]

\* The task queue at the start of an action creator or of a continuation.
TaskQueue ==
    [ tasks |-> tasks, taskBodies |-> taskBodies,
      taskResolves |-> taskResolves, requests |-> requests,
      promises |-> promises, nextTaskID |-> nextTaskID,
      effects |-> <<>> ]

\* this._taskResolves[taskID](value): the promise of the task is given the
\* value.
Resolve(q, taskID, value) ==
    [q EXCEPT !.promises[taskID] = Append(@, value),
              !.effects = Append(@, [op |-> "resolve", taskID |-> taskID,
                                     value |-> value])]

\* The catch block of _runTask: the error dialog, and the task FAILED.
Catch(q, taskID) ==
    [q EXCEPT !.effects = Append(@, [op |-> "errorDialog"]),
              !.tasks = ChangeTaskState(@, taskID, TaskStates.FAILED)]

\* _runTask(taskID), to its first await: the task is RUNNING and its first
\* request is out.
RunTaskInner(q, taskID) ==
    LET q1 == [q EXCEPT !.tasks =
                            ChangeTaskState(@, taskID, TaskStates.RUNNING)]
    IN  [q1 EXCEPT !.requests =
            @ \cup {[taskID |-> taskID, uploads |-> q1.taskBodies[taskID]]}]

\* runTask(description, method, url, body), for a body with `files` File
\* objects: a new task, started now if every task there is has SUCCEEDED.
RunTask(q, files) ==
    LET taskID == q.nextTaskID
        startNow == \A i \in DOMAIN q.tasks :
                        q.tasks[i].state = TaskStates.SUCCEEDED
        q1 == [q EXCEPT !.nextTaskID = @ + 1,
                        !.taskBodies = Put(@, taskID, files),
                        !.taskResolves = @ \cup {taskID},
                        !.promises = Put(@, taskID, <<>>),
                        !.tasks = CreateTask(@, taskID)]
    IN  IF startNow THEN RunTaskInner(q1, taskID) ELSE q1

\* dismissTask(taskID).
DismissTask(q, taskID) ==
    [q EXCEPT !.taskBodies = Delete(@, taskID),
              !.taskResolves = @ \ {taskID},
              !.tasks = RemoveTask(@, taskID)]

\* _runTask from the await of a request that succeeded: the next upload or
\* the end request; after the end request the promise is resolved, the task
\* SUCCEEDED and the first WAITING task started.  Calling the entry of
\* this._taskResolves of a task that was dismissed throws, into the catch
\* block.
RequestSucceeds(q, request) ==
    LET taskID == request.taskID
        q0 == [q EXCEPT !.requests = @ \ {request}]
    IN  IF request.uploads > 0
            THEN [q0 EXCEPT !.requests =
                     @ \cup {[request EXCEPT !.uploads = @ - 1]}]
        ELSE IF taskID \notin q0.taskResolves
            THEN Catch(q0, taskID)
        ELSE LET q1 == Resolve(q0, taskID, [cancel |-> FALSE])
                 q2 == [q1 EXCEPT !.tasks =
                           ChangeTaskState(@, taskID, TaskStates.SUCCEEDED)]
                 waiting == {i \in DOMAIN q2.tasks :
                                q2.tasks[i].state = TaskStates.WAITING}
             IN  IF waiting = {}
                     THEN q2
                     ELSE RunTaskInner(q2,
                              q2.tasks[CHOOSE i \in waiting :
                                  \A j \in waiting : i <= j].taskID)

\* _runTask from the await of a request that failed: the catch block.
RequestFails(q, request) ==
    Catch([q EXCEPT !.requests = @ \ {request}], request.taskID)

\* The loop of cancelWaitingTaskAfter over the ids to cancel.
RECURSIVE CancelTasks(_, _, _)
CancelTasks(q, taskIDs, k) ==
    IF k > Len(taskIDs) THEN q
    ELSE IF taskIDs[k] \notin q.taskResolves
        THEN [q EXCEPT !.effects = Append(@, [op |-> "throw"])]
    ELSE CancelTasks(DismissTask(Resolve(q, taskIDs[k], [cancel |-> TRUE]),
                                 taskIDs[k]),
                     taskIDs, k + 1)

\* The sequence in the opposite order.
Reverse(seq) == [i \in DOMAIN seq |-> seq[Len(seq) + 1 - i]]

\* cancelWaitingTaskAfter(taskID): the tasks from taskID on that are WAITING
\* or FAILED are resolved with cancel and dismissed, the last first.
CancelWaitingTaskAfter(q, taskID) ==
    LET from == IndexOfTask(q.tasks, taskID)
        skipped == IF from = 0 THEN <<>>
                   ELSE SubSeq(q.tasks, from, Len(q.tasks))
        toCancelTasks ==
            SelectSeq(skipped,
                      LAMBDA task : task.state \in {TaskStates.WAITING,
                                                    TaskStates.FAILED})
    IN  CancelTasks(q, Reverse([i \in DOMAIN toCancelTasks |->
                                   toCancelTasks[i].taskID]), 1)

(***************************************************************************)
(* Messages.                                                               *)
(***************************************************************************)
HelloMessages == [type : {"goofy:hello"}, uuid : SessionIds]

StateChangeMessages ==
    [type : {"goofy:state_change"}, path : EventPaths, state : TestStates]

SetHtmlMessages ==
    [ type : {"goofy:set_html"}, test : TestPaths,
      invocation : InvocationUuids, append : BOOLEAN, html : Markups ]

RunJsMessages ==
    [ type : {"goofy:run_js"}, test : TestPaths,
      invocation : InvocationUuids, args : JsArgs, js : JsCodes ]

CallJsFunctionMessages ==
    [ type : {"goofy:call_js_function"}, test : TestPaths,
      invocation : InvocationUuids, name : JsFunctionNames ]

DestroyTestMessages ==
    [type : {"goofy:destroy_test"}, invocation : InvocationUuids]

\* goofy:log, and an event of a type the controller does not know.
LogMessages == [type : {"goofy:log"}, message : {"a line"}]

UnknownMessages == [type : {"goofy:not_handled"}]

\* goofy:system_info: nothing known, or a serial number to escape and the
\* checksum of an update.
SystemInfos ==
    { [k \in {} |-> ""],
      [k \in {"serial_number", "factory_md5sum"} |->
          IF k = "serial_number" THEN "A&B" ELSE "d41d8cd9"] }

SystemInfoMessages == [type : {"goofy:system_info"}, system_info : SystemInfos]

\* The target times of a shutdown, a whole number of seconds from time 0 and
\* one that is not; the delays: none, one second, two.
ShutdownTimes == {2 * UnitsPerSecond, 2 * UnitsPerSecond + 1}

ShutdownDelays == {0, UnitsPerSecond, 2 * UnitsPerSecond}

\* goofy:pending_shutdown with a target time.
PendingShutdownMessages ==
    [ type : {"goofy:pending_shutdown"}, time : ShutdownTimes,
      delay_secs : ShutdownDelays, operation : {"reboot"},
      iteration : {1}, iterations : {1} ]

\* goofy:pending_shutdown with no target time: none is pending any more.
NoShutdownMessages ==
    [ type : {"goofy:pending_shutdown"}, time : {0}, delay_secs : {0},
      operation : {Null}, iteration : {0}, iterations : {0} ]

\* The replies of get_shared_data(['test_list_options']).
TestListOptions == [engineering_password_sha1 : PasswordHashes]

\* KEYDOWN events: Escape, Ctrl-Alt-0, Alt-L (the shortcut of a test),
\* Alt-X (the shortcut of none), and L with no modifier.
KeyEvents ==
    { [keyCode |-> KeyCodes.ESC, altKey |-> FALSE, ctrlKey |-> FALSE],
      [keyCode |-> KeyCodes.ZERO, altKey |-> TRUE, ctrlKey |-> TRUE],
      [keyCode |-> KeyCodes.L, altKey |-> TRUE, ctrlKey |-> FALSE],
      [keyCode |-> KeyCodes.X, altKey |-> TRUE, ctrlKey |-> FALSE],
      [keyCode |-> KeyCodes.L, altKey |-> FALSE, ctrlKey |-> FALSE] }

\* The replies get_test_states may give: a state for every test, and the
\* __jsonclass__ key of the serialisation.
StateMaps ==
    {stateMap \in [TreePaths \cup {"__jsonclass__"} -> TestStates] :
        stateMap["__jsonclass__"].status = "UNTESTED"}

(***************************************************************************)
(* Actions: one per handler.                                               *)
(***************************************************************************)
\* goog.net.WebSocket.EventType.OPENED.
WsOpened ==
    /\ ~wsIsOpen
    /\ Becomes([This EXCEPT !.wsIsOpen = TRUE, !.wsOpened = TRUE])
    /\ last' = [type |-> "ws:opened"]
    /\ UNCHANGED htmlLog

\* goog.net.WebSocket.EventType.CLOSED.
WsClosed ==
    /\ wsIsOpen
    /\ Becomes([This EXCEPT !.wsIsOpen = FALSE,
                            !.wsOpened = IF @ THEN FALSE ELSE @])
    /\ last' = [type |-> "ws:closed"]
    /\ UNCHANGED htmlLog

\* The interval timer of initWebSocket.
KeepAliveTimer ==
    /\ Becomes(KeepAlive(This))
    /\ last' = [type |-> "timer:keepalive"]
    /\ UNCHANGED htmlLog

\* goog.net.WebSocket.EventType.MESSAGE: a socket delivers messages only
\* while it is open.
OnMessage(message) ==
    /\ wsIsOpen
    /\ Becomes(HandleBackendEvent(This, message))
    /\ last' = message
    /\ UNCHANGED htmlLog

\* A goofy:set_html message, kept in the history of such messages.
OnSetHtml(message) ==
    /\ wsIsOpen
    /\ Len(htmlLog) < MaxSetHtml
    /\ Becomes(HandleBackendEvent(This, message))
    /\ last' = message
    /\ htmlLog' = Append(htmlLog, [ invocation |-> message.invocation,
                                    append |-> message.append,
                                    html |-> message.html ])

\* The page loads again after window.location.reload(): a new Goofy.
WindowLoad ==
    /\ reloading
    /\ Becomes([Constructed EXCEPT !.now = now, !.backend = backend,
                                   !.autoCollapse = autoCollapse])
    /\ last' = [type |-> "window:load"]
    /\ htmlLog' = <<>>

\* The reply of get_test_list.
OnTestList(testList) ==
    /\ GetTestList \in rpcPending
    /\ Becomes(XhrComplete(This, GetTestList, testList))
    /\ last' = [ type |-> "rpc:get_test_list",
                 callback |-> RpcCallback(This, GetTestList) ]
    /\ UNCHANGED htmlLog

\* The reply of get_test_states.
OnTestStates(stateMap) ==
    /\ GetTestStates \in rpcPending
    /\ Becomes(XhrComplete(This, GetTestStates, stateMap))
    /\ last' = [ type |-> "rpc:get_test_states",
                 callback |-> RpcCallback(This, GetTestStates) ]
    /\ UNCHANGED htmlLog

\* An auto-collapse timeout fires.
OnCollapseTimeout(path) ==
    /\ path \in collapseTimers
    /\ Becomes(CollapseTimeout(This, path))
    /\ last' = [type |-> "timer:collapse", path |-> path]
    /\ UNCHANGED htmlLog

\* The code of a test calls test.pass(): the code of an iframe keeps its
\* reference to the API after the iframe was removed.
OnTestPass(i) ==
    /\ Becomes(TestPass(This, i))
    /\ last' = [type |-> "test.pass", obj |-> i, live |-> objs[i].iframe]
    /\ UNCHANGED htmlLog

\* The code of a test calls test.fail(errorMsg).
OnTestFail(i, errorMsg) ==
    /\ Becomes(TestFail(This, i, errorMsg))
    /\ last' = [ type |-> "test.fail", obj |-> i, live |-> objs[i].iframe,
                 errorMsg |-> errorMsg ]
    /\ UNCHANGED htmlLog

\* The code of a test calls test.sendTestEvent(subtype, data).
OnTestSendTestEvent(i, subtype, data) ==
    /\ Becomes(TestSendTestEvent(This, i, subtype, data))
    /\ last' = [type |-> "test.sendTestEvent", obj |-> i]
    /\ UNCHANGED htmlLog

\* The reply of get_shared_data(['system_info']).
OnSystemInfo(systemInfo) ==
    /\ GetSystemInfo \in rpcPending
    /\ Becomes(XhrComplete(This, GetSystemInfo, systemInfo))
    /\ last' = [ type |-> "rpc:system_info",
                 callback |-> RpcCallback(This, GetSystemInfo) ]
    /\ UNCHANGED htmlLog

\* The reply of get_shared_data(['test_list_options']).
OnTestListOptions(options) ==
    /\ GetTestListOptions \in rpcPending
    /\ Becomes(XhrComplete(This, GetTestListOptions, options))
    /\ last' = [ type |-> "rpc:test_list_options", options |-> options,
                 callback |-> RpcCallback(This, GetTestListOptions) ]
    /\ UNCHANGED htmlLog

\* Time passes.
ClockAdvances ==
    /\ now < MaxNow
    /\ Becomes([This EXCEPT !.now = @ + 1])
    /\ last' = [type |-> "clock"]
    /\ UNCHANGED htmlLog

\* goog.Timer.TICK of the timer of a shutdown dialog.
OnTick(k) ==
    /\ k \in DOMAIN shutdownDialogs
    /\ shutdownDialogs[k].timer
    /\ Becomes(Tick(This, k))
    /\ last' = [type |-> "timer:tick", dialog |-> k]
    /\ UNCHANGED htmlLog

\* KEYDOWN in the shutdown dialog, which is modal and has the focus while
\* it is shown: the listener of its element runs, then those of the window.
OnDialogKeyDown(event) ==
    /\ \E k \in DOMAIN shutdownDialogs : shutdownDialogs[k].visible
    /\ Becomes(WindowKeyDown(ShutdownOnKey(This, event), event))
    /\ last' = [type |-> "keydown:dialog", event |-> event]
    /\ UNCHANGED htmlLog

\* KEYDOWN anywhere else in the page.
OnWindowKeyDown(event) ==
    /\ Becomes(WindowKeyDown(This, event))
    /\ last' = [type |-> "keydown:window", event |-> event]
    /\ UNCHANGED htmlLog

\* The operator leaves a prompt: with OK and the text entered, or cancelled
\* (a text of null).  The callback runs, and the prompt hides.
OnPromptExit(k, text) ==
    /\ k \in DOMAIN prompts
    /\ prompts[k].visible
    /\ Becomes([PromptCallback(This, text) EXCEPT !.prompts[k].visible = FALSE])
    /\ last' = [type |-> "prompt:exit", text |-> text]
    /\ UNCHANGED htmlLog

\* MOUSEDOWN on the label of a test, or CONTEXTMENU on its row.  A menu that
\* is open hides on the press of the button, before this one is shown.
OnContextMenu(path) ==
    /\ path \in DOMAIN pathNodeMap
    /\ menus = <<>>
    /\ Becomes(ShowTestPopup(This, path, <<>>))
    /\ last' = [type |-> "contextmenu", path |-> path]
    /\ UNCHANGED htmlLog

\* MOUSEDOWN or CONTEXTMENU on the title: the menu of the whole list, with
\* the item to update the software.  The listener is added by setTestList.
OnTitleMenu ==
    /\ "" \in DOMAIN pathNodeMap
    /\ menus = <<>>
    /\ Becomes(ShowTestPopup(This, "", <<UpdateItem>>))
    /\ last' = [type |-> "contextmenu:title", path |-> ""]
    /\ UNCHANGED htmlLog

\* The operator selects an item that is enabled: its handler runs, and the
\* menu hides.
OnMenuAction(m, k) ==
    /\ m \in DOMAIN menus
    /\ k \in DOMAIN menus[m].items
    /\ menus[m].items[k].enabled
    /\ Becomes(MenuHide(MenuItemAction(This, menus[m].items[k]), m))
    /\ last' = [ type |-> "menu:action", path |-> menus[m].path,
                 item |-> menus[m].items[k].name ]
    /\ UNCHANGED htmlLog

\* The operator dismisses a menu.
OnMenuHide(m) ==
    /\ m \in DOMAIN menus
    /\ Becomes(MenuHide(This, m))
    /\ last' = [type |-> "menu:hide"]
    /\ UNCHANGED htmlLog

(***************************************************************************)
(* Specifications.                                                         *)
(***************************************************************************)
\* The connection: the socket opens and closes, hello arrives, the keepalive
\* timer fires, the page reloads; the test list arrives meanwhile.
NextTransport ==
    \/ WsOpened
    \/ WsClosed
    \/ KeepAliveTimer
    \/ \E message \in HelloMessages : OnMessage(message)
    \/ \E message \in LogMessages \cup UnknownMessages : OnMessage(message)
    \/ WindowLoad
    \/ OnTestList(TestList)

SpecTransport == Init /\ [][NextTransport]_vars

\* The test tree: the test list and the states arrive, states change.
NextTree ==
    \/ WsOpened
    \/ WsClosed
    \/ OnTestList(TestList)
    \/ \E stateMap \in StateMaps : OnTestStates(stateMap)
    \/ \E message \in StateChangeMessages : OnMessage(message)

SpecTree == Init /\ [][NextTree]_vars

\* The invocations: the backend shows, drives and destroys test UIs, the
\* code of the tests passes, fails and sends events.
NextInvocation ==
    \/ WsOpened
    \/ WsClosed
    \/ \E message \in {m \in SetHtmlMessages : ~m.append} : OnMessage(message)
    \/ \E message \in RunJsMessages : OnMessage(message)
    \/ \E message \in CallJsFunctionMessages : OnMessage(message)
    \/ \E message \in DestroyTestMessages : OnMessage(message)
    \/ \E i \in 1..Len(objs) : OnTestPass(i)
    \/ \E i \in 1..Len(objs), errorMsg \in ErrorMessages : OnTestFail(i, errorMsg)
    \/ \E i \in 1..Len(objs) : OnTestSendTestEvent(i, "clicked", "ok")

SpecInvocation == Init /\ [][NextInvocation]_vars

\* The content of the test UIs: set_html in every order, with destroy_test.
NextHtml ==
    \/ WsOpened
    \/ WsClosed
    \/ \E message \in SetHtmlMessages : OnSetHtml(message)
    \/ \E message \in DestroyTestMessages : OnMessage(message)

SpecHtml == Init /\ [][NextHtml]_vars

\* The countdown: shutdowns are announced and called off, the clock runs,
\* the timers tick, keys are pressed in the dialog; the backend may restart.
NextShutdown ==
    \/ WsOpened
    \/ WsClosed
    \/ \E message \in PendingShutdownMessages : OnMessage(message)
    \/ \E message \in NoShutdownMessages : OnMessage(message)
    \/ ClockAdvances
    \/ \E k \in DOMAIN shutdownDialogs : OnTick(k)
    \/ \E event \in {e \in KeyEvents : ~e.ctrlKey} : OnDialogKeyDown(event)
    \/ \E message \in HelloMessages : OnMessage(message)
    \/ WindowLoad

SpecShutdown == Init /\ [][NextShutdown]_vars

\* The inputs of the controller as a whole: one event of each type.
DispatchMessages ==
    {m \in HelloMessages : m.uuid = "s1"}
        \cup UnknownMessages
        \cup {m \in StateChangeMessages :
                m.path = "SMT.LED" /\ m.state.status \in {"ACTIVE", "FAILED"}}
        \cup {m \in SetHtmlMessages :
                m.test = "SMT.LED" /\ m.invocation = "u1"
                    /\ ~m.append /\ m.html = "<p>a</p>"}
        \cup {m \in RunJsMessages :
                m.test = "SMT.LED" /\ m.invocation = "u1" /\ m.js = "nop"}
        \cup {m \in CallJsFunctionMessages :
                m.test = "SMT.LED" /\ m.invocation = "u1"
                    /\ m.name = "window.update"}
        \cup {m \in DestroyTestMessages : m.invocation = "u1"}
        \cup {m \in PendingShutdownMessages :
                m.time = 2 * UnitsPerSecond /\ m.delay_secs = UnitsPerSecond}
        \cup NoShutdownMessages

\* The controller as a whole: every kind of handler that is not a timer,
\* each with few inputs, at one instant of the clock.
NextDispatch ==
    \/ WsOpened
    \/ \E message \in DispatchMessages : OnMessage(message)
    \/ OnTestList(TestList)
    \/ \E stateMap \in {sm \in StateMaps :
                            \A p \in TreePaths : sm[p].status = "UNTESTED"} :
           OnTestStates(stateMap)
    \/ \E options \in {o \in TestListOptions :
                           o.engineering_password_sha1 = Null} :
           OnTestListOptions(options)
    \/ \E i \in 1..Len(objs) : OnTestPass(i)
    \/ \E i \in 1..Len(objs), errorMsg \in ErrorMessages : OnTestFail(i, errorMsg)
    \/ \E i \in 1..Len(objs) : OnTestSendTestEvent(i, "clicked", "ok")
    \/ \E event \in {e \in KeyEvents : ~e.altKey} : OnDialogKeyDown(event)
    \/ \E event \in {e \in KeyEvents : e.altKey /\ ~e.ctrlKey} :
           OnWindowKeyDown(event)
    \/ \E path \in {"SMT"} : OnContextMenu(path)
    \/ OnTitleMenu
    \/ \E m \in DOMAIN menus : \E k \in DOMAIN menus[m].items : OnMenuAction(m, k)
    \/ \E m \in DOMAIN menus : OnMenuHide(m)

SpecDispatch == Init /\ [][NextDispatch]_vars

\* The engineering mode: the options arrive, the operator presses keys and
\* answers the prompts; meanwhile events and replies of other kinds arrive.
NextGate ==
    \/ WsOpened
    \/ \E options \in TestListOptions : OnTestListOptions(options)
    \/ \E event \in KeyEvents : OnWindowKeyDown(event)
    \/ \E k \in DOMAIN prompts, text \in Texts \cup {Null} : OnPromptExit(k, text)
    \/ \E message \in {m \in DispatchMessages \cup LogMessages :
                           m.type \notin {"goofy:set_html", "goofy:run_js",
                                          "goofy:call_js_function"}} :
           OnMessage(message)
    \/ \E message \in SystemInfoMessages : OnMessage(message)
    \/ \E event \in KeyEvents : OnDialogKeyDown(event)
    \/ \E systemInfo \in SystemInfos : OnSystemInfo(systemInfo)
    \/ OnTestList(TestList)

SpecGate == Init /\ [][NextGate]_vars

\* The replies get_test_states may give for the test list that was loaded:
\* a state for every test of it.  The menu reads the states of the leaves
\* only: those of the groups are all taken UNTESTED here.
MenuStateMaps ==
    {stateMap \in [DOMAIN pathTestMap -> TestStates] :
        \A p \in DOMAIN pathTestMap :
            Len(pathTestMap[p].subtests) # 0 => stateMap[p].status = "UNTESTED"}

\* The context menu: a test list of one of several shapes arrives, then the
\* states of its tests; the operator opens the menu of a test or of the
\* title, selects an item or dismisses the menu.
NextMenu ==
    \/ WsOpened
    \/ \E testList \in MenuTestLists : OnTestList(testList)
    \/ \E stateMap \in MenuStateMaps : OnTestStates(stateMap)
    \/ \E path \in DOMAIN pathNodeMap : OnContextMenu(path)
    \/ OnTitleMenu
    \/ \E m \in DOMAIN menus : \E k \in DOMAIN menus[m].items : OnMenuAction(m, k)
    \/ \E m \in DOMAIN menus : OnMenuHide(m)

SpecMenu == Init /\ [][NextMenu]_vars

\* The RPC calls: the replies of the calls that are out arrive in any order,
\* each with any result its method may give; the page reloads on a hello
\* of another session and calls anew.
NextRpc ==
    \/ WsOpened
    \/ \E message \in HelloMessages : OnMessage(message)
    \/ WindowLoad
    \/ OnTestList(TestList)
    \/ \E stateMap \in StateMaps : OnTestStates(stateMap)
    \/ \E systemInfo \in SystemInfos : OnSystemInfo(systemInfo)
    \/ \E options \in TestListOptions : OnTestListOptions(options)

SpecRpc == Init /\ [][NextRpc]_vars

(***************************************************************************)
(* The backend and its two channels: the socket, which delivers the events *)
(* in the order they were written, and the reply of get_test_states, which *)
(* comes by its own HTTP request.                                          *)
(***************************************************************************)
\* The most events written to the socket and not yet delivered.
MaxInFlight == 2

\* The backend sets the state of a test and tells the socket.
BackendReports(s, path, state) ==
    [s EXCEPT !.backend.states[path] = state,
              !.backend.socket =
                  Append(@, [ type |-> "goofy:state_change",
                              path |-> path, state |-> state ])]

\* The backend answers get_test_states with the states it holds then.
BackendAnswersTestStates(s) ==
    [s EXCEPT !.backend.statesReplies = Append(@, s.backend.states)]

OnBackendReports(path, state) ==
    /\ wsIsOpen
    /\ Len(backend.socket) < MaxInFlight
    /\ state # backend.states[path]
    /\ Becomes(BackendReports(This, path, state))
    /\ last' = [type |-> "backend:state_change", path |-> path]
    /\ UNCHANGED htmlLog

OnBackendAnswersTestStates ==
    /\ GetTestStates \in rpcPending
    /\ backend.statesReplies = <<>>
    /\ Becomes(BackendAnswersTestStates(This))
    /\ last' = [type |-> "backend:get_test_states"]
    /\ UNCHANGED htmlLog

\* MESSAGE of the socket, for the event written first.
OnSocketDelivers ==
    /\ wsIsOpen
    /\ backend.socket # <<>>
    /\ Becomes([HandleBackendEvent(This, Head(backend.socket))
                   EXCEPT !.backend.socket = Tail(@)])
    /\ last' = Head(backend.socket)
    /\ UNCHANGED htmlLog

\* The reply of get_test_states comes, with the states the backend gave.
OnTestStatesReply ==
    /\ GetTestStates \in rpcPending
    /\ backend.statesReplies # <<>>
    /\ Becomes([XhrComplete(This, GetTestStates, Head(backend.statesReplies))
                   EXCEPT !.backend.statesReplies = Tail(@)])
    /\ last' = [ type |-> "rpc:get_test_states",
                 callback |-> RpcCallback(This, GetTestStates) ]
    /\ UNCHANGED htmlLog

\* The states of the tests, as the backend sets them and the controller
\* learns them.
NextOrder ==
    \/ WsOpened
    \/ OnTestList(TestList)
    \/ \E path \in {"SMT", "SMT.LED"}, state \in TestStates :
           OnBackendReports(path, state)
    \/ OnBackendAnswersTestStates
    \/ OnSocketDelivers
    \/ OnTestStatesReply

SpecOrder == Init /\ [][NextOrder]_vars

\* The page compiled with AUTO_COLLAPSE or without it.
InitCollapse ==
    \E define \in BOOLEAN :
        /\ autoCollapse = define
        /\ wsIsOpen = Constructed.wsIsOpen
        /\ wsOpened = Constructed.wsOpened
        /\ uuid = Constructed.uuid
        /\ reloading = Constructed.reloading
        /\ invocations = Constructed.invocations
        /\ objs = Constructed.objs
        /\ mainChildren = Constructed.mainChildren
        /\ pathNodeMap = Constructed.pathNodeMap
        /\ pathTestMap = Constructed.pathTestMap
        /\ rpcPending = Constructed.rpcPending
        /\ collapseTimers = Constructed.collapseTimers
        /\ engineeringMode = Constructed.engineeringMode
        /\ engineeringPasswordSHA1 = Constructed.engineeringPasswordSHA1
        /\ engineeringModeDialog = Constructed.engineeringModeDialog
        /\ prompts = Constructed.prompts
        /\ shutdownDialog = Constructed.shutdownDialog
        /\ shutdownDialogs = Constructed.shutdownDialogs
        /\ now = Constructed.now
        /\ contextMenuVisible = Constructed.contextMenuVisible
        /\ menus = Constructed.menus
        /\ infoTooltip = Constructed.infoTooltip
        /\ backend = Constructed.backend
        /\ effects = Constructed.effects
        /\ evals = Constructed.evals
        /\ tasks = NewTaskQueue.tasks
        /\ taskBodies = NewTaskQueue.taskBodies
        /\ taskResolves = NewTaskQueue.taskResolves
        /\ requests = NewTaskQueue.requests
        /\ promises = NewTaskQueue.promises
        /\ nextTaskID = NewTaskQueue.nextTaskID
        /\ touchscreenTest = NoTouchscreenTest
        /\ last = [type |-> "window:load"]
        /\ htmlLog = <<>>

\* The auto-collapse: the test list and the states arrive, states change,
\* the timeouts of setTestState fire, each at any time after it was set.
NextCollapse ==
    \/ WsOpened
    \/ OnTestList(TestList)
    \/ \E stateMap \in StateMaps : OnTestStates(stateMap)
    \/ \E message \in StateChangeMessages : OnMessage(message)
    \/ \E path \in TreePaths : OnCollapseTimeout(path)

SpecCollapse == InitCollapse /\ [][NextCollapse]_vars

(***************************************************************************)
(* The task queue of Dome: its actions.                                    *)
(***************************************************************************)
\* The state an action creator or a continuation of the task queue leaves.
TaskQueueBecomes(q) ==
    /\ tasks' = q.tasks
    /\ taskBodies' = q.taskBodies
    /\ taskResolves' = q.taskResolves
    /\ requests' = q.requests
    /\ promises' = q.promises
    /\ nextTaskID' = q.nextTaskID
    /\ effects' = q.effects
    /\ evals' = <<>>
    /\ UNCHANGED goofyVars
    /\ UNCHANGED touchVars

\* A component dispatches runTask.
OnRunTask(files) ==
    /\ nextTaskID <= MaxTasks
    /\ TaskQueueBecomes(RunTask(TaskQueue, files))
    /\ last' = [type |-> "runTask", taskID |-> nextTaskID]

\* A component dispatches dismissTask for a task of the list.
OnDismissTask(taskID) ==
    /\ IndexOfTask(tasks, taskID) # 0
    /\ TaskQueueBecomes(DismissTask(TaskQueue, taskID))
    /\ last' = [type |-> "dismissTask", taskID |-> taskID]

\* A component dispatches cancelWaitingTaskAfter for a task of the list.
OnCancelWaitingTaskAfter(taskID) ==
    /\ IndexOfTask(tasks, taskID) # 0
    /\ TaskQueueBecomes(CancelWaitingTaskAfter(TaskQueue, taskID))
    /\ last' = [type |-> "cancelWaitingTaskAfter", taskID |-> taskID]

\* The server answers a request of a task.
OnRequestSucceeds(request) ==
    /\ request \in requests
    /\ TaskQueueBecomes(RequestSucceeds(TaskQueue, request))
    /\ last' = [type |-> "request:ok", taskID |-> request.taskID,
                uploads |-> request.uploads]

\* A request of a task fails.
OnRequestFails(request) ==
    /\ request \in requests
    /\ TaskQueueBecomes(RequestFails(TaskQueue, request))
    /\ last' = [type |-> "request:failed", taskID |-> request.taskID,
                uploads |-> request.uploads]

\* The task ids uuid() gives, and the requests there may be.
TaskIDs == 1..MaxTasks

Requests == [taskID : TaskIDs, uploads : FileCounts]

\* The task queue: tasks are run, dismissed and cancelled at any time, and
\* the requests of the running ones succeed or fail.
NextTaskQueue ==
    \/ \E files \in FileCounts : OnRunTask(files)
    \/ \E taskID \in TaskIDs : OnDismissTask(taskID)
    \/ \E taskID \in TaskIDs : OnCancelWaitingTaskAfter(taskID)
    \/ \E request \in Requests : OnRequestSucceeds(request)
    \/ \E request \in Requests : OnRequestFails(request)

SpecTaskQueue == Init /\ [][NextTaskQueue]_vars

(***************************************************************************)
(* The touchscreen test (touchscreen.js).  The screen is numColumns by     *)
(* numRows blocks, each BlockPixels wide and high.  The class of a block   *)
(* of the table is written without its prefix touchscreen-test-block-.     *)
(***************************************************************************)
\* this.MOVE_TOLERANCE, in pixels.
MOVE_TOLERANCE == 20

\* this.indicatorLength
IndicatorLength == 4

\* screen.width / numColumns and screen.height / numRows, in pixels.
BlockPixels == 40

\* Where in a block a touch is, from its left and from its upper edge: in
\* the middle.
PointOffsets == {20}

\* The classes of the segments of the demo indicator, from its head.
DemoClasses == <<"demo-0", "demo-1", "demo-2", "demo-3">>

\* new TouchscreenTest(...), with the table of blocks, which is not there
\* yet, and what the handler at work did.
NewTouchscreenTest(numColumns, numRows, maxRetries, demoIntervalMsecs, spiralMode) ==
    [ numColumns |-> numColumns, numRows |-> numRows,
      maxRetries |-> maxRetries, spiralMode |-> spiralMode,
      expectSequence |-> <<>>, tries |-> 0,
      previousBlockIndex |-> -1, expectBlockIndex |-> 0,
      tryFailed |-> FALSE,
      demoIntervalMsecs |-> demoIntervalMsecs,
      previousX |-> 0, previousY |-> 0,
      startTouch |-> Undefined,
      \* Not set by the constructor; startDemo sets it before it is read.
      indicatorHead |-> 0,
      demoTimer |-> FALSE,
      \* Not set by the constructor: <<>> is undefined.
      failMessage |-> <<>>,
      blocks |-> <<>>,
      effects |-> <<>> ]

\* xyToIndex(x, y)
XyToIndex(t, x, y) == x + y * t.numColumns

\* The blocks impl pushes while it goes right.
GoRight(t, startX, startY, sizeX, sizeY) ==
    [ i \in 1..sizeX |->
        LET x == startX + i - 1
            y == startY
        IN  [ blockIndex |-> XyToIndex(t, x, y),
              directionX |-> 1,
              directionY |-> IF x = startX + sizeX - 1 THEN 1 ELSE 0 ] ]

\* The blocks impl pushes while it goes down.
GoDown(t, startX, startY, sizeX, sizeY) ==
    [ i \in 1..(sizeY - 1) |->
        LET x == startX + sizeX - 1
            y == startY + i
        IN  [ blockIndex |-> XyToIndex(t, x, y),
              directionX |-> IF y = startY + sizeY - 1 THEN -1 ELSE 0,
              directionY |-> 1 ] ]

\* The blocks impl pushes while it goes left.
GoLeft(t, startX, startY, sizeX, sizeY) ==
    [ i \in 1..(sizeX - 1) |->
        LET x == startX + sizeX - 1 - i
            y == startY + sizeY - 1
        IN  [ blockIndex |-> XyToIndex(t, x, y),
              directionX |-> -1,
              directionY |-> IF x = startX THEN -1 ELSE 0 ] ]

\* Going up as far as the row the ring started in.
GoUpToStart(t, startX, startY, sizeX, sizeY) ==
    [ i \in 1..(sizeY - 1) |->
        LET x == startX
            y == startY + sizeY - 1 - i
        IN  [ blockIndex |-> XyToIndex(t, x, y),
              directionX |-> IF y = startY + 1 THEN 1 ELSE 0,
              directionY |-> -1 ] ]

\* The blocks impl pushes while it goes up: it stops below the first block.
GoUp(t, startX, startY, sizeX, sizeY) ==
    [ i \in 1..(sizeY - 2) |->
        LET x == startX
            y == startY + sizeY - 1 - i
        IN  [ blockIndex |-> XyToIndex(t, x, y),
              directionX |-> IF y = startY + 1 THEN 1 ELSE 0,
              directionY |-> -1 ] ]

RECURSIVE impl(_, _, _, _, _)
\* impl(startX, startY, sizeX, sizeY) of generateTouchSequence.
impl(t, startX, startY, sizeX, sizeY) ==
    IF sizeX <= 0 \/ sizeY <= 0
    THEN <<>>
    ELSE LET right == GoRight(t, startX, startY, sizeX, sizeY)
             down == right \o GoDown(t, startX, startY, sizeX, sizeY)
             left == down \o GoLeft(t, startX, startY, sizeX, sizeY)
             up == left \o GoUp(t, startX, startY, sizeX, sizeY)
         IN  IF sizeY = 1
             THEN right
             ELSE IF sizeX = 1
                  THEN down
                  ELSE up \o impl(t, startX + 1, startY + 1,
                                  sizeX - 2, sizeY - 2)

\* generateTouchSequence()
GenerateTouchSequence(t) == impl(t, 0, 0, t.numColumns, t.numRows)

\* getBlockIndex(touch)
GetBlockIndex(t, touch) ==
    LET col == (touch.screenX * t.numColumns)
                   \div (t.numColumns * BlockPixels)
        row == (touch.screenY * t.numRows) \div (t.numRows * BlockPixels)
    IN  XyToIndex(t, col, row)

\* updatePreviousXY(touch)
UpdatePreviousXY(t, touch) ==
    [t EXCEPT !.previousX = touch.screenX, !.previousY = touch.screenY]

\* Math.abs
Abs(n) == IF n < 0 THEN -n ELSE n

\* What checkDirection(touch) returns; it calls updatePreviousXY too.
CheckDirection(t, touch) ==
    LET diffX == touch.screenX - t.previousX
        diffY == touch.screenY - t.previousY
    IN  IF t.expectBlockIndex < Len(t.expectSequence)
        THEN LET expected == t.expectSequence[t.expectBlockIndex + 1]
                 checkX ==
                     CASE expected.directionX = 1 ->
                              diffX + MOVE_TOLERANCE > 0
                       [] expected.directionX = 0 ->
                              Abs(diffX) < MOVE_TOLERANCE
                       [] expected.directionX = -1 ->
                              diffX < MOVE_TOLERANCE
                 checkY ==
                     CASE expected.directionY = 1 ->
                              diffY + MOVE_TOLERANCE > 0
                       [] expected.directionY = 0 ->
                              Abs(diffY) < MOVE_TOLERANCE
                       [] expected.directionY = -1 ->
                              diffY < MOVE_TOLERANCE
             IN  checkX /\ checkY
        ELSE TRUE

\* prompt(message)
TouchPrompt(t, message) ==
    [t EXCEPT !.effects = Append(@, [op |-> "prompt", message |-> message])]

\* markBlock(blockIndex, passed)
MarkBlock(t, blockIndex, passed) ==
    [t EXCEPT !.blocks[blockIndex + 1] =
                  IF passed THEN "tested" ELSE "failed"]

\* isBlockTested(blockIndex)
IsBlockTested(t, blockIndex) == t.blocks[blockIndex + 1] = "tested"

\* The ids of the blocks of a class.
BlocksOfClass(t, className) ==
    {i - 1 : i \in {j \in DOMAIN t.blocks : t.blocks[j] = className}}

\* failTest()
FailTest(t) ==
    LET failMessage == << "Touchscreen test failed.",
                          BlocksOfClass(t, "failed"),
                          BlocksOfClass(t, "untested") >>
    IN  [t EXCEPT !.failMessage = failMessage,
                  !.effects = Append(@, [op |-> "window.test.fail",
                                         message |-> failMessage])]

\* failThisTry() that counts every failure.
FailThisTryEveryTime(t) ==
    LET failed == [t EXCEPT !.tryFailed = TRUE, !.tries = @ + 1]
    IN  IF failed.tries > failed.maxRetries
        THEN FailTest(failed)
        ELSE failed

\* failThisTry()
FailThisTry(t) ==
    IF ~t.tryFailed
    THEN LET failed == [t EXCEPT !.tryFailed = TRUE, !.tries = @ + 1]
         IN  IF failed.tries > failed.maxRetries
             THEN FailTest(failed)
             ELSE failed
    ELSE t

\* restartTest()
RestartTest(t) ==
    LET prompted ==
            TouchPrompt(t, IF t.spiralMode
                           THEN "MSG_SPIRAL_INSTRUCTION"
                           ELSE "MSG_ANYORDER_INSTRUCTION")
    IN  [prompted EXCEPT
            !.blocks = [i \in DOMAIN @ |->
                           IF i - 1 < Len(t.expectSequence)
                           THEN "untested"
                           ELSE @[i]],
            !.previousBlockIndex = -1,
            !.expectBlockIndex = 0,
            !.tryFailed = FALSE]

\* checkTestComplete()
CheckTestComplete(t) ==
    IF t.expectBlockIndex = Len(t.expectSequence)
    THEN [t EXCEPT !.effects = Append(@, [op |-> "window.test.pass"])]
    ELSE t

\* The classes showDemoIndicator gives to the blocks of the indicator,
\* from its segment on.
RECURSIVE DemoSegments(_, _)
DemoSegments(t, indicatorSegment) ==
    LET index == t.indicatorHead - indicatorSegment
    IN  IF indicatorSegment >= IndicatorLength
           \/ index < t.expectBlockIndex
        THEN t
        ELSE IF index >= Len(t.expectSequence)
             THEN DemoSegments(t, indicatorSegment + 1)
             ELSE DemoSegments(
                      [t EXCEPT !.blocks[
                                    t.expectSequence[index + 1].blockIndex
                                        + 1] =
                                    DemoClasses[indicatorSegment + 1]],
                      indicatorSegment + 1)

\* showDemoIndicator()
ShowDemoIndicator(t) ==
    IF t.indicatorHead >= Len(t.expectSequence) + IndicatorLength
    THEN [t EXCEPT !.demoTimer = FALSE]
    ELSE LET shown == DemoSegments(t, 0)
             cleanupIndex == t.indicatorHead - IndicatorLength
             cleaned ==
                 IF cleanupIndex >= t.expectBlockIndex
                 THEN [shown EXCEPT
                          !.blocks[t.expectSequence[cleanupIndex + 1]
                                       .blockIndex + 1] = "untested"]
                 ELSE shown
         IN  [cleaned EXCEPT !.indicatorHead = @ + 1, !.demoTimer = TRUE]

\* startDemo()
StartDemo(t) ==
    ShowDemoIndicator([t EXCEPT !.indicatorHead = t.expectBlockIndex])

\* setupFullScreenElement()
SetupFullScreenElement(t) ==
    LET created ==
            [t EXCEPT !.blocks = [i \in 1..(t.numRows * t.numColumns) |->
                                      "untested"]]
        restarted == RestartTest(created)
    IN  [restarted EXCEPT
            !.effects = Append(@, [op |-> "window.test.setFullScreen"])]

\* TouchscreenTest.prototype.init
TouchscreenTestInit(t) ==
    LET shown == SetupFullScreenElement(t)
        generated ==
            [shown EXCEPT !.expectSequence = GenerateTouchSequence(shown)]
        checked ==
            IF Len(generated.expectSequence)
                   # generated.numColumns * generated.numRows
            THEN FailTest([generated EXCEPT
                              !.effects = Append(@, [op |-> "alert"])])
            ELSE generated
    IN  IF checked.spiralMode /\ checked.demoIntervalMsecs > 0
        THEN StartDemo(checked)
        ELSE checked

\* setupTouchscreenTest(container, numColumns, numRows, maxRetries,
\* demoIntervalMsecs, e2eMode, spiralMode); e2eMode only tells which way the
\* touches come to the handlers.
SetupTouchscreenTest(numColumns, numRows, maxRetries, demoIntervalMsecs, spiralMode) ==
    TouchscreenTestInit(
        NewTouchscreenTest(numColumns, numRows, maxRetries,
                           demoIntervalMsecs, spiralMode))

\* touchStartHandler(touch)
TouchStartHandler(t, touch) ==
    LET touchBlockIndex == GetBlockIndex(t, touch)
        updated == UpdatePreviousXY(t, touch)
    IN  IF updated.spiralMode /\ touchBlockIndex # 0
        THEN LET prompted == TouchPrompt(updated, "MSG_START_UPPER_LEFT")
                 marked == MarkBlock(prompted, touchBlockIndex, FALSE)
             IN  FailThisTry([marked EXCEPT !.startTouch = "false"])
        ELSE LET reset == IF updated.tryFailed
                          THEN RestartTest(updated)
                          ELSE updated
             IN  [reset EXCEPT !.startTouch = "true"]

\* touchMoveHandler(touch)
TouchMoveHandler(t, touch) ==
    LET touchBlockIndex == GetBlockIndex(t, touch)
        checked ==
            IF t.spiralMode
            THEN IF ~CheckDirection(t, touch)
                 THEN FailThisTry(
                          MarkBlock(
                              TouchPrompt(UpdatePreviousXY(t, touch),
                                          "MSG_CHECK_GODS_TOUCH"),
                              touchBlockIndex, FALSE))
                 ELSE UpdatePreviousXY(t, touch)
            ELSE t
    IN  IF checked.previousBlockIndex = touchBlockIndex
        THEN checked
        ELSE IF /\ ~checked.tryFailed
                /\ checked.spiralMode
                /\ checked.expectBlockIndex >= Len(checked.expectSequence)
             THEN \* expectSequence[expectBlockIndex] is undefined.
                  [checked EXCEPT
                      !.effects = Append(@, [op |-> "throw",
                                             error |-> "TypeError"])]
             ELSE IF /\ ~checked.tryFailed
                     /\ \/ ~checked.spiralMode
                        \/ checked.expectSequence[
                               checked.expectBlockIndex + 1].blockIndex
                               = touchBlockIndex
                  THEN IF \/ checked.spiralMode
                          \/ ~IsBlockTested(checked, touchBlockIndex)
                       THEN CheckTestComplete(
                                [MarkBlock(checked, touchBlockIndex, TRUE)
                                    EXCEPT
                                    !.expectBlockIndex = @ + 1,
                                    !.previousBlockIndex =
                                        touchBlockIndex])
                       ELSE checked
                  ELSE LET prompted ==
                               TouchPrompt(
                                   checked,
                                   IF checked.tryFailed
                                   THEN "MSG_OUT_OF_SEQUENCE_MULTIPLE"
                                   ELSE "MSG_OUT_OF_SEQUENCE")
                           failed ==
                               FailThisTry(MarkBlock(prompted,
                                                     touchBlockIndex,
                                                     FALSE))
                       IN  [failed EXCEPT
                               !.previousBlockIndex = touchBlockIndex]

\* touchEndHandler(touch)
TouchEndHandler(t, touch) ==
    IF t.spiralMode
    THEN LET touchBlockIndex == GetBlockIndex(t, touch)
             failed == IF ~t.tryFailed
                       THEN FailThisTry(TouchPrompt(t, "MSG_LEAVE_EARLY"))
                       ELSE t
         IN  MarkBlock(failed, touchBlockIndex, FALSE)
    ELSE t

(***************************************************************************)
(* The touchscreen test: its actions.                                      *)
(***************************************************************************)
\* The state a handler of the touchscreen test leaves.
TouchBecomes(t) ==
    /\ touchscreenTest' = [t EXCEPT !.effects = <<>>]
    /\ effects' = t.effects
    /\ evals' = <<>>
    /\ UNCHANGED goofyVars
    /\ UNCHANGED domeVars

\* The page of the test calls setupTouchscreenTest.
OnSetupTouchscreenTest(numColumns, numRows, maxRetries, demoIntervalMsecs, spiralMode) ==
    /\ touchscreenTest = NoTouchscreenTest
    /\ TouchBecomes(SetupTouchscreenTest(numColumns, numRows, maxRetries,
                                         demoIntervalMsecs, spiralMode))
    /\ last' = [type |-> "setupTouchscreenTest"]

\* The points of the screen a touch may be at.
TouchPoints ==
    IF touchscreenTest = NoTouchscreenTest
    THEN {}
    ELSE { [screenX |-> col * BlockPixels + dx,
            screenY |-> row * BlockPixels + dy] :
               col \in 0..(touchscreenTest.numColumns - 1),
               row \in 0..(touchscreenTest.numRows - 1),
               dx \in PointOffsets, dy \in PointOffsets }

\* Touches are followed until the tries are two more than maxRetries.
TouchesFollowed ==
    /\ touchscreenTest # NoTouchscreenTest
    /\ touchscreenTest.tries <= touchscreenTest.maxRetries + 1

\* A touchstart event, or goofyTouchListener('touchStartHandler', x, y).
OnTouchStart(touch) ==
    /\ TouchesFollowed
    /\ touch \in TouchPoints
    /\ TouchBecomes(TouchStartHandler(touchscreenTest, touch))
    /\ last' = [type |-> "touchstart", touch |-> touch]

\* A touchmove event, or goofyTouchListener('touchMoveHandler', x, y).
OnTouchMove(touch) ==
    /\ TouchesFollowed
    /\ touch \in TouchPoints
    /\ TouchBecomes(TouchMoveHandler(touchscreenTest, touch))
    /\ last' = [type |-> "touchmove", touch |-> touch]

\* A touchend event, or goofyTouchListener('touchEndHandler', x, y).
OnTouchEnd(touch) ==
    /\ TouchesFollowed
    /\ touch \in TouchPoints
    /\ TouchBecomes(TouchEndHandler(touchscreenTest, touch))
    /\ last' = [type |-> "touchend", touch |-> touch]

\* The timer of the demo fires.
OnDemoTimer ==
    /\ touchscreenTest # NoTouchscreenTest
    /\ touchscreenTest.demoTimer
    /\ TouchBecomes(ShowDemoIndicator(touchscreenTest))
    /\ last' = [type |-> "demoTimer"]

\* Values of demoIntervalMsecs: no demo, and a demo.
DemoIntervals == {0, 1000}

\* Every point of the screens of the tests that are touched.
AllTouchPoints ==
    { [screenX |-> col * BlockPixels + dx,
       screenY |-> row * BlockPixels + dy] :
          col \in 0..(MaxTouchBlocks - 1), row \in 0..(MaxTouchBlocks - 1),
          dx \in PointOffsets, dy \in PointOffsets }

\* A test of any grid is set up, and its demo runs.
NextTouchSequence ==
    \/ \E numColumns \in 1..MaxGrid, numRows \in 1..MaxGrid,
          maxRetries \in 0..MaxRetries,
          demoIntervalMsecs \in DemoIntervals, spiralMode \in BOOLEAN :
          OnSetupTouchscreenTest(numColumns, numRows, maxRetries,
                                 demoIntervalMsecs, spiralMode)
    \/ OnDemoTimer

SpecTouchSequence == Init /\ [][NextTouchSequence]_vars

\* A test without demo is set up and touched.
NextTouch ==
    \/ \E numColumns \in 1..MaxTouchBlocks, numRows \in 1..MaxTouchBlocks,
          maxRetries \in 0..MaxRetries, spiralMode \in BOOLEAN :
          /\ numColumns * numRows <= MaxTouchBlocks
          /\ OnSetupTouchscreenTest(numColumns, numRows, maxRetries, 0,
                                    spiralMode)
    \/ \E touch \in AllTouchPoints : OnTouchStart(touch)
    \/ \E touch \in AllTouchPoints : OnTouchMove(touch)
    \/ \E touch \in AllTouchPoints : OnTouchEnd(touch)

SpecTouch == Init /\ [][NextTouch]_vars

\* Every handler, with every input.  The specifications above are this one
\* with the handlers of the other parts of the controller left out.
Next ==
    \/ NextTransport
    \/ NextTree
    \/ NextInvocation
    \/ NextHtml
    \/ NextShutdown
    \/ NextDispatch
    \/ NextGate
    \/ \E path \in TreePaths : OnCollapseTimeout(path)
    \/ \E path \in TreePaths : OnContextMenu(path)

Spec == Init /\ [][Next]_vars

(***************************************************************************)
(* Properties.                                                             *)
(***************************************************************************)
\* The status marker of each status.
StatusMarker ==
    [ UNTESTED |-> <<"goofy-status-", "untested">>,
      ACTIVE |-> <<"goofy-status-", "active">>,
      PASSED |-> <<"goofy-status-", "passed">>,
      FAILED |-> <<"goofy-status-", "failed">> ]

AllStatusMarkers == {StatusMarker[status] : status \in Statuses}

IsSend(effect, event) == effect = [op |-> "send", event |-> event]

\* The run ids with a live Invocation.
LiveUuids ==
    {u \in DOMAIN invocations : invocations[u] # NoObject}

\* C1: after a state_change event for a path of the tree is handled, the
\* state of that test has the status of the event, and the node of the test
\* carries one status marker, the marker of that status.
C1_StateChangeSetsStatusAndMarker ==
    [][ (last'.type = "goofy:state_change"
            /\ last'.path \in DOMAIN pathNodeMap)
        => /\ pathTestMap'[last'.path].state.status = last'.state.status
           /\ pathNodeMap'[last'.path].classes \cap AllStatusMarkers
                  = {StatusMarker[last'.state.status]} ]_vars

\* The leaf was shown as ACTIVE before (its group is expanded, which only
\* an ACTIVE state of the leaf does), and a state_change has now made it
\* PASSED.
C1_Witness ==
    /\ last.type = "goofy:state_change"
    /\ last.path = "SMT.LED"
    /\ last.state.status = "PASSED"
    /\ "SMT" \in DOMAIN pathNodeMap
    /\ pathNodeMap["SMT"].expanded
    /\ pathTestMap["SMT.LED"].state.status = "PASSED"

\* C2: a hello event with a session id other than the one recorded asks for
\* a reload of the page, leaves the recorded id as it is and sends nothing.
C2_HelloMismatchReloads ==
    [][ (last'.type = "goofy:hello" /\ uuid # Null /\ last'.uuid # uuid)
        => /\ reloading'
           /\ uuid' = uuid
           /\ effects' = <<>> ]_vars

C2_Witness ==
    /\ last.type = "goofy:hello"
    /\ uuid # Null
    /\ last.uuid # uuid
    /\ reloading

\* C3: a hello event that arrives when no session id is recorded, or with
\* the id that is recorded, records its id and sends one keepalive with that
\* id within its handler; it asks for no reload.
C3_HelloAdoptsAndSendsKeepAlive ==
    [][ (last'.type = "goofy:hello" /\ (uuid = Null \/ last'.uuid = uuid))
        => /\ uuid' = last'.uuid
           /\ Len(effects') = 1
           /\ IsSend(effects'[1],
                     [type |-> "goofy:keepalive", uuid |-> last'.uuid])
           /\ reloading' = reloading ]_vars

C3_Witness ==
    /\ last.type = "goofy:hello"
    /\ uuid = last.uuid
    /\ ~reloading
    /\ Len(effects) = 1
    /\ effects[1].event.type = "goofy:keepalive"

\* C4: every keepalive that is sent is sent while the connection is open
\* and carries a session id adopted from a hello event, never an unset id.
C4_KeepAliveCarriesAdoptedId ==
    \A k \in 1..Len(effects) :
        (effects[k].op = "send" /\ effects[k].event.type = "goofy:keepalive")
            => /\ wsIsOpen
               /\ effects[k].event.uuid \in SessionIds

\* The events that reach getOrCreateInvocation.
InvocationEventTypes ==
    {"goofy:set_html", "goofy:run_js", "goofy:call_js_function"}

\* The Invocation objects made for a run id.
ObjectsOf(objects, u) == {i \in 1..Len(objects) : objects[i].uuid = u}

\* C5: no run id ever has two Invocation objects; a set_html, run_js or
\* call_js_function event for a run id that is known uses the Invocation of
\* that id and makes no iframe, and an Invocation is only ever made by such
\* an event for a run id that is not known yet.
C5_GetOrCreateMakesOneSandbox ==
    [][ /\ \A u \in InvocationUuids : Cardinality(ObjectsOf(objs', u)) <= 1
        /\ (last'.type \in InvocationEventTypes
                /\ last'.invocation \in DOMAIN invocations)
            => /\ Len(objs') = Len(objs)
               /\ mainChildren' = mainChildren
               /\ invocations' = invocations
               /\ effects' = <<>>
        /\ (Len(objs') > Len(objs))
            => /\ last'.type \in InvocationEventTypes
               /\ last'.invocation \notin DOMAIN invocations
               /\ Len(objs') = Len(objs) + 1
               /\ objs'[Len(objs')].uuid = last'.invocation
               /\ invocations'[last'.invocation] = Len(objs') ]_vars

\* An event for a run id whose Invocation is live has been handled, and it
\* made nothing.
C5_Witness ==
    /\ last.type \in InvocationEventTypes
    /\ last.invocation \in LiveUuids
    /\ effects = <<>>
    /\ Cardinality(ObjectsOf(objs, last.invocation)) = 1

\* C6: a destroy_test event for a run id with a live Invocation removes the
\* iframe of that Invocation, and the run id is live no more; a destroy_test
\* event for any other run id makes no Invocation and changes nothing.
C6_DestroyTestDisposes ==
    [][ (last'.type = "goofy:destroy_test")
        => IF last'.invocation \in LiveUuids
               THEN LET i == invocations[last'.invocation]
                    IN  /\ ~objs'[i].iframe
                        /\ i \notin mainChildren'
                        /\ last'.invocation \notin LiveUuids'
                        /\ effects' = <<[op |-> "removeNode", obj |-> i]>>
               ELSE /\ UNCHANGED <<invocations, objs, mainChildren>>
                    /\ effects' = <<>> ]_vars

C6_Witness ==
    /\ last.type = "goofy:destroy_test"
    /\ Len(effects) = 1
    /\ effects[1].op = "removeNode"
    /\ last.invocation \notin LiveUuids

\* C7: pass() (fail(m)) called by the code of a live Invocation sends one
\* end_test event, PASSED (FAILED with the message m), with the run id and
\* the path of that Invocation, and then disposes of the Invocation: the
\* event goes out before the iframe is removed.
C7_PassFailSendThenDispose ==
    [][ (last'.type \in {"test.pass", "test.fail"} /\ last'.live)
        => LET i == last'.obj
               event ==
                   IF last'.type = "test.pass"
                       THEN [ type |-> "goofy:end_test", status |-> "PASSED",
                              invocation |-> objs[i].uuid,
                              test |-> objs[i].path ]
                       ELSE [ type |-> "goofy:end_test", status |-> "FAILED",
                              error_msg |-> last'.errorMsg,
                              invocation |-> objs[i].uuid,
                              test |-> objs[i].path ]
           IN  /\ effects' = << [op |-> "send", event |-> event],
                                [op |-> "removeNode", obj |-> i] >>
               /\ ~objs'[i].iframe
               /\ i \notin mainChildren'
               /\ objs[i].uuid \notin LiveUuids' ]_vars

C7_Witness ==
    /\ last.type = "test.fail"
    /\ last.live
    /\ Len(effects) = 2
    /\ effects[1].event.status = "FAILED"
    /\ ~objs[last.obj].iframe

\* C8: dispose is idempotent: on an Invocation that is disposed already it
\* changes nothing, sends nothing and removes nothing, and dispose twice
\* leaves the state that dispose once leaves.
C8_DisposeIdempotent ==
    \A i \in 1..Len(objs) :
        LET once == Dispose(This, i)
            twice == Dispose(once, i)
        IN  /\ twice = once
            /\ ~objs[i].iframe => once = This

\* pass() was called on an Invocation already disposed: its dispose was the
\* second one.
C8_Witness ==
    /\ last.type = "test.pass"
    /\ ~last.live
    /\ ~objs[last.obj].iframe

\* The set_html events handled for a run id, in order.
HtmlEventsOf(u) == SelectSeq(htmlLog, LAMBDA m : m.invocation = u)

\* The markups of the last event that does not append and of all after it;
\* of all events, if every one appends.
ExpectedContent(events) ==
    LET replaces == {k \in 1..Len(events) : ~events[k].append}
        first == IF replaces = {}
                     THEN 1
                     ELSE CHOOSE k \in replaces : \A j \in replaces : j <= k
    IN  [j \in 1..(Len(events) - first + 1) |-> events[first + j - 1].html]

\* C9: the content of the iframe of a live Invocation is the markups, in the
\* order of arrival, of the last set_html event for its run id that did not
\* append and of every later one (of all of them, if all appended).
C9_SetHtmlContent ==
    \A u \in LiveUuids :
        objs[invocations[u]].body = ExpectedContent(HtmlEventsOf(u))

\* Three events for one live Invocation: one whose markup was cleared by the
\* second, which did not append, and a third appended to the second.
C9_Witness ==
    \E u \in LiveUuids :
        LET events == HtmlEventsOf(u)
        IN  /\ Len(events) = 3
            /\ ~events[2].append
            /\ events[3].append
            /\ events[1].html # events[2].html
            /\ Len(objs[invocations[u]].body) = 2

\* The run id a handler is about: that of its message, or that of the
\* Invocation whose test called.
UuidOf(handler) ==
    IF "invocation" \in DOMAIN handler THEN handler.invocation
    ELSE IF "obj" \in DOMAIN handler THEN objs[handler.obj].uuid
    ELSE Null

\* C10: an event for a run id that is not known makes a new Invocation, also
\* when an Invocation of the same path is live; and what is done for one run
\* id changes neither the iframe nor the liveness of the Invocation of
\* another run id.
C10_RunIdsIndependent ==
    [][ LET u == UuidOf(last')
        IN  (u # Null)
            => /\ \A j \in 1..Len(objs) :
                      objs[j].uuid # u
                          => /\ objs'[j] = objs[j]
                             /\ (j \in mainChildren') = (j \in mainChildren)
               /\ \A v \in DOMAIN invocations :
                      v # u => /\ v \in DOMAIN invocations'
                               /\ invocations'[v] = invocations[v]
               /\ (last'.type \in InvocationEventTypes
                      /\ u \notin DOMAIN invocations)
                   => /\ Len(objs') = Len(objs) + 1
                      /\ u \in LiveUuids' ]_vars

\* Two Invocations of one path, both live, each with its own content.
C10_Witness ==
    \E i, j \in 1..Len(objs) :
        /\ objs[i].uuid # objs[j].uuid
        /\ objs[i].path = objs[j].path
        /\ objs[i].iframe /\ objs[j].iframe
        /\ {i, j} \subseteq mainChildren
        /\ objs[i].body # <<>>
        /\ objs[j].body # <<>>
        /\ objs[i].body # objs[j].body

\* The state of a path in a map of tests: none for a path with no test.
StateOf(tests, path) ==
    IF path \in DOMAIN tests THEN tests[path].state ELSE NoState

\* The handlers that may set the state of a test: that of a state_change
\* event and the callback of get_test_states.
StateSettingHandlers == {"goofy:state_change", "rpc:get_test_states"}

\* C11: the state of no test changes in a step of any other handler:
\* destroy_test, set_html, run_js, call_js_function, pass(), fail(),
\* sendTestEvent(), the selection of a menu item, a keyboard shortcut, the
\* Escape key in the shutdown dialog, and every other event, reply and
\* input leave the state of every path as it was.
C11_StatesChangeOnlyByStateChange ==
    [][ (last'.type \notin StateSettingHandlers)
        => \A path \in EventPaths :
               StateOf(pathTestMap', path) = StateOf(pathTestMap, path) ]_vars

\* The leaf was made ACTIVE (its group is revealed), then the Invocation
\* shown for it was destroyed: the leaf is ACTIVE still.
C11_Witness ==
    /\ last.type = "goofy:destroy_test"
    /\ effects = <<[op |-> "removeNode", obj |-> 1]>>
    /\ objs[1].path = "SMT.LED"
    /\ "SMT.LED" \in DOMAIN pathTestMap
    /\ pathTestMap["SMT.LED"].state.status = "ACTIVE"
    /\ pathNodeMap["SMT"].expanded

\* The types of event handleBackendEvent has a branch for.
HandledTypes ==
    { "goofy:hello", "goofy:log", "goofy:state_change", "goofy:set_html",
      "goofy:run_js", "goofy:call_js_function", "goofy:destroy_test",
      "goofy:system_info", "goofy:pending_shutdown" }

\* The types of the events the backend sends.
BackendTypes == HandledTypes \cup {m.type : m \in UnknownMessages}

\* C12: an event of a type that is not handled changes nothing: the tree
\* and the states of the tests, the Invocations and their iframes, the
\* session id, the shutdown dialog and its timer, the engineering mode, its
\* hash and its prompts are as before, nothing is sent, no reload is asked
\* for, and the socket is as open as before, so that the events that follow
\* are handled as they would have been without it.
C12_UnknownEventChangesNothing ==
    [][ (last'.type \in BackendTypes \ HandledTypes)
        => /\ UNCHANGED <<pathNodeMap, pathTestMap, collapseTimers>>
           /\ UNCHANGED <<invocations, objs, mainChildren>>
           /\ UNCHANGED <<uuid, wsIsOpen, wsOpened, reloading, rpcPending>>
           /\ UNCHANGED <<shutdownDialog, shutdownDialogs>>
           /\ UNCHANGED <<engineeringMode, engineeringPasswordSHA1,
                          engineeringModeDialog, prompts>>
           /\ UNCHANGED <<contextMenuVisible, menus, infoTooltip>>
           /\ effects' = <<>> ]_vars

\* An event of an unknown type arrived with a session id recorded, a test
\* ACTIVE, an Invocation live, a shutdown pending and the engineering mode
\* on.
C12_Witness ==
    /\ last.type \in BackendTypes \ HandledTypes
    /\ uuid = "s1"
    /\ "SMT.LED" \in DOMAIN pathTestMap
    /\ pathTestMap["SMT.LED"].state.status = "ACTIVE"
    /\ LiveUuids # {}
    /\ shutdownDialog # NoObject
    /\ engineeringMode

\* C13: a state_change event for a path that has no node in the tree (a
\* path the test list does not have, or any path while the test list has
\* not arrived) changes the state of no test and no node of the tree, sends
\* nothing, and leaves the socket and the calls that are out as they were:
\* the events and replies that follow are handled as without it.
C13_StateChangeForUnknownPathDropped ==
    [][ (last'.type = "goofy:state_change"
            /\ last'.path \notin DOMAIN pathNodeMap)
        => /\ UNCHANGED <<pathNodeMap, pathTestMap, collapseTimers>>
           /\ UNCHANGED <<wsIsOpen, wsOpened, reloading, rpcPending, uuid>>
           /\ \A k \in DOMAIN effects' : effects'[k].op # "send" ]_vars

\* The tests have their states, and a state_change event has named a path
\* that is none of them.
C13_Witness ==
    /\ last.type = "goofy:state_change"
    /\ last.path \notin DOMAIN pathNodeMap
    /\ "SMT.LED" \in DOMAIN pathTestMap
    /\ pathTestMap["SMT.LED"].state.status = "FAILED"
    /\ last.state.status = "PASSED"

\* The shutdown dialogs that are shown, and those whose timer runs.
ShownShutdownDialogs ==
    {k \in DOMAIN shutdownDialogs : shutdownDialogs[k].visible}

RunningTickTimers ==
    {k \in DOMAIN shutdownDialogs : shutdownDialogs[k].timer}

\* C14: there is never more than one shutdown dialog, and never more than
\* one tick timer running; the dialog there is is the one this.shutdownDialog
\* refers to.
C14_AtMostOneCountdown ==
    /\ Cardinality(ShownShutdownDialogs) <= 1
    /\ Cardinality(RunningTickTimers) <= 1
    /\ Len(shutdownDialogs) <= 1
    /\ shutdownDialog = Len(shutdownDialogs)

\* A shutdown was announced while the dialog of another was shown: the old
\* dialog was taken down and the new one is shown.
C14_Witness ==
    /\ last.type = "goofy:pending_shutdown"
    /\ effects = <<[op |-> "disposeDialog"], [op |-> "showDialog"]>>
    /\ Len(shutdownDialogs) = 1
    /\ shutdownDialogs[1].info = last
    /\ RunningTickTimers = {1}

\* C15: a pending_shutdown event with no target time takes down the dialog
\* that is shown, if one is, with its timer, and shows none: no dialog is
\* left.  Nothing else changes and nothing is sent.
C15_NoTimeClearsCountdown ==
    [][ (last'.type = "goofy:pending_shutdown" /\ last'.time = 0)
        => /\ shutdownDialogs' = <<>>
           /\ shutdownDialog' = NoObject
           /\ effects' = IF shutdownDialog # NoObject
                              THEN <<[op |-> "disposeDialog"]>>
                              ELSE <<>>
           /\ UNCHANGED <<wsIsOpen, wsOpened, uuid, reloading, invocations,
                          objs, mainChildren, pathNodeMap, pathTestMap,
                          rpcPending, collapseTimers, engineeringMode,
                          engineeringPasswordSHA1, engineeringModeDialog,
                          prompts, now, contextMenuVisible, menus,
                          infoTooltip, htmlLog>> ]_vars

\* The dialog of a shutdown, which had ticked, was taken down by an event
\* with no time.
C15_Witness ==
    /\ last.type = "goofy:pending_shutdown"
    /\ last.time = 0
    /\ effects = <<[op |-> "disposeDialog"]>>
    /\ shutdownDialogs = <<>>
    /\ now > 0

\* What makes a countdown: for every dialog, the shutdown it is about,
\* whether it is shown and whether its timer runs (not what its spans and
\* its progress bar show at the moment).
Countdowns(dialogs) ==
    [k \in DOMAIN dialogs |->
        <<dialogs[k].info, dialogs[k].visible, dialogs[k].timer>>]

\* The event Escape sends.
CancelShutdown == [type |-> "goofy:cancel_shutdown"]

\* C16: the Escape key pressed in the shutdown dialog sends one
\* cancel_shutdown event and nothing else, and the dialog stays as it is,
\* shown and with its timer running; and a dialog that is shown is only
\* ever taken down in the handler of a pending_shutdown event (or with the
\* whole page, when it reloads), never in that of a key or of a timer.
C16_EscapeSendsCancelAndKeepsDialog ==
    [][ /\ (last'.type = "keydown:dialog"
                /\ last'.event.keyCode = KeyCodes.ESC)
            => /\ effects' = <<[op |-> "send", event |-> CancelShutdown]>>
               /\ UNCHANGED <<shutdownDialog, shutdownDialogs>>
               /\ ShownShutdownDialogs' # {}
               /\ RunningTickTimers' = ShownShutdownDialogs'
        /\ (Countdowns(shutdownDialogs') # Countdowns(shutdownDialogs)
                /\ shutdownDialogs # <<>>)
            => last'.type \in {"goofy:pending_shutdown", "window:load"}
      ]_vars

\* Escape was pressed in a dialog that has ticked: the event went out, the
\* dialog is shown and its timer runs.
C16_Witness ==
    /\ last.type = "keydown:dialog"
    /\ last.event.keyCode = KeyCodes.ESC
    /\ effects = <<[op |-> "send", event |-> CancelShutdown]>>
    /\ shutdownDialog = 1
    /\ shutdownDialogs[1].visible
    /\ shutdownDialogs[1].timer
    /\ shutdownDialogs[1].secs > 0

\* The dialog whose timer ticked last, after the tick.
TickedDialog == shutdownDialogs'[last'.dialog]

\* The time left to the target of that dialog at the tick, in clock units:
\* max(0, T - now).
TimeLeft == Max(0, TickedDialog.info.time - now)

\* C17: after a tick, the seconds shown are 1 + floor(max(0, T - now)),
\* that is the whole number n >= 1 with n - 1 <= max(0, T - now) < n, and
\* the plural "s" is shown if and only if that number is not 1.
C17_SecondsShownArePlusOneFloor ==
    [][ (last'.type = "timer:tick")
        => /\ TickedDialog.secs >= 1
           /\ (TickedDialog.secs - 1) * UnitsPerSecond <= TimeLeft
           /\ TimeLeft < TickedDialog.secs * UnitsPerSecond
           /\ TickedDialog.plural = (IF TickedDialog.secs = 1 THEN "" ELSE "s")
      ]_vars

\* A tick less than a second before the target time shows 1, with no
\* plural.
C17_Witness ==
    /\ last.type = "timer:tick"
    /\ shutdownDialogs[last.dialog].info.time - now = 1
    /\ shutdownDialogs[last.dialog].secs = 1
    /\ shutdownDialogs[last.dialog].plural = ""

\* C18, as stated: after a tick at or before the target time, the seconds
\* shown are the time left rounded up to a whole second, the number n with
\* n - 1 < T - now <= n, also when T - now is a whole number of seconds or
\* zero.
C18_SecondsShownAreCeiling ==
    [][ (last'.type = "timer:tick" /\ now <= TickedDialog.info.time)
        => /\ (TickedDialog.secs - 1) * UnitsPerSecond < TimeLeft
           /\ TimeLeft <= TickedDialog.secs * UnitsPerSecond ]_vars

\* C18, amended: after a tick at or before the target time, the seconds
\* shown are the time left rounded up to a whole second when the time left
\* is not a whole number of seconds, and the time left plus one second
\* when it is (1 at the target time itself).
C18_SecondsShownAreCeilingOffWholeSeconds ==
    [][ (last'.type = "timer:tick" /\ now <= TickedDialog.info.time)
        => IF TimeLeft % UnitsPerSecond = 0
               THEN TickedDialog.secs * UnitsPerSecond
                        = TimeLeft + UnitsPerSecond
               ELSE /\ (TickedDialog.secs - 1) * UnitsPerSecond < TimeLeft
                    /\ TimeLeft <= TickedDialog.secs * UnitsPerSecond ]_vars

\* A tick exactly two seconds before the target time shows "3 seconds".
C18_Witness ==
    /\ last.type = "timer:tick"
    /\ shutdownDialogs[last.dialog].info.time - now = 2 * UnitsPerSecond
    /\ shutdownDialogs[last.dialog].secs = 3
    /\ shutdownDialogs[last.dialog].plural = "s"

\* C19: after a tick, the value of the progress bar is a number from 0 to
\* 100: a hundred times clamp((now - (T - D)) / D, 0, 1), which is 0 up to
\* the start T - D, 1 from the target time T on, and the part of the delay
\* D that has passed in between.
C19_ProgressFractionClamped ==
    [][ (last'.type = "timer:tick")
        => LET progress == TickedDialog.progress
               delay == TickedDialog.info.delay_secs
               passed == now - (TickedDialog.info.time - delay)
           IN  /\ progress.kind = "finite"
               /\ 0 <= progress.num
               /\ progress.num <= 100 * progress.den
               /\ (delay > 0) =>
                      IF passed <= 0 THEN progress.num = 0
                      ELSE IF passed >= delay
                          THEN progress.num = 100 * progress.den
                      ELSE progress.num * delay = 100 * passed * progress.den
      ]_vars

\* A password hash is configured: the stored hash is a string, be it the
\* digest the options gave or the placeholder of before they arrived.
HashConfigured(hash) == hash \notin {Null, Undefined}

\* C20: with a password hash configured, the engineering mode goes from
\* off to on only in the callback of the prompt, called with a text the
\* operator entered whose SHA-1 digest in hexadecimal is the stored hash:
\* no event of the backend, no reply, no key and no cancelled or empty
\* prompt turns it on.
C20_UnlockOnlyByMatchingPassword ==
    [][ (~engineeringMode /\ engineeringMode'
            /\ HashConfigured(engineeringPasswordSHA1'))
        => /\ last'.type = "prompt:exit"
           /\ last'.text \in Texts \ {""}
           /\ Sha1Hex(last'.text) = engineeringPasswordSHA1
           /\ engineeringPasswordSHA1' = engineeringPasswordSHA1 ]_vars

\* The operator entered the password whose digest the options gave: the
\* engineering mode is on.
C20_Witness ==
    /\ last.type = "prompt:exit"
    /\ last.text = "secret"
    /\ engineeringPasswordSHA1 = "e5e9fa1ba31ecd1ae84f75caaa474f3a663f05f4"
    /\ engineeringMode

\* The alerts the last handler showed, in order.
AlertsShown == SelectSeq(effects, LAMBDA e : e.op = "alert")

UnlockKeyPressed ==
    /\ last.type = "keydown:window"
    /\ last.event.ctrlKey /\ last.event.altKey
    /\ last.event.keyCode = KeyCodes.ZERO

\* C23: with a hash stored, the unlock key pressed while the engineering
\* mode is on turns it off at once and leaves no password prompt; pressed
\* while the mode is off it shows a prompt and leaves the mode off, and the
\* mode then goes on only when a text whose digest is the stored hash is
\* submitted.  There is never more than one password prompt.
C23_UnlockKeyTogglesOrPrompts ==
    [][ /\ (UnlockKeyPressed' /\ ~Not(engineeringPasswordSHA1) /\ engineeringMode)
           => /\ ~engineeringMode'
              /\ prompts' = <<>>
              /\ engineeringModeDialog' = NoObject
        /\ (UnlockKeyPressed' /\ ~Not(engineeringPasswordSHA1) /\ ~engineeringMode)
           => /\ ~engineeringMode'
              /\ prompts' = <<[visible |-> TRUE]>>
              /\ engineeringModeDialog' = 1
        /\ (~engineeringMode /\ engineeringMode' /\ ~Not(engineeringPasswordSHA1'))
           => /\ last'.type = "prompt:exit"
              /\ Sha1Hex(last'.text) = engineeringPasswordSHA1'
        /\ Len(prompts') <= 1
      ]_vars

\* The password was configured, the engineering mode was on, and the unlock
\* key was pressed: the mode is off and no prompt is there.
C23_Witness ==
    /\ UnlockKeyPressed
    /\ engineeringPasswordSHA1 = Sha1Hex("secret")
    /\ ~engineeringMode
    /\ prompts = <<>>

\* Whether a path is the root of a subtree or below it, by the names of the
\* paths.
RECURSIVE IsAtOrBelow(_, _)
IsAtOrBelow(path, root) ==
    \/ path = root
    \/ path # "" /\ IsAtOrBelow(ParentPath(path), root)

\* The number of leaves of the loaded list at or below a path whose status
\* is one of the given ones.
LeavesWithStatus(tests, root, statuses) ==
    Cardinality({p \in DOMAIN tests :
                    /\ Len(tests[p].subtests) = 0
                    /\ IsAtOrBelow(p, root)
                    /\ tests[p].state.status \in statuses})

\* The status filter an item of the context menu counts.
ItemStatuses(name) ==
    CASE name = "restart_or_run" -> Statuses
      [] name = "restart_not_passed" -> {"UNTESTED", "ACTIVE", "FAILED"}
      [] name = "run_untested" -> {"UNTESTED", "ACTIVE"}
      [] name = "stop" -> {"ACTIVE"}
      [] OTHER -> {}

ActionNames == {"restart_or_run", "restart_not_passed", "run_untested", "stop"}

\* The menu a handler has just shown.
MenuShown == menus[Len(menus)]

\* The items of a menu with a given name.
ItemsNamed(menu, name) ==
    {k \in DOMAIN menu.items : menu.items[k].name = name}

\* C24: when a context menu is shown for a node, the count of every action
\* in it is the number of leaves of the node's subtree with the statuses
\* of that action: UNTESTED, ACTIVE or FAILED for restart-not-passed,
\* UNTESTED or ACTIVE for run-untested, ACTIVE for stop-active, any status
\* for run/restart-all; and the run/restart-all and stop-active actions are
\* always in it.
C24_MenuCountsAreLeafCounts ==
    [][ (Len(menus') > Len(menus))
        => /\ \A k \in DOMAIN MenuShown'.items :
                  LET item == MenuShown'.items[k]
                  IN  item.name \in ActionNames
                          => item.count =
                                 LeavesWithStatus(pathTestMap', MenuShown'.path,
                                                  ItemStatuses(item.name))
           /\ ItemsNamed(MenuShown', "restart_or_run") # {}
           /\ ItemsNamed(MenuShown', "stop") # {}
      ]_vars

\* The menu of the root of a list of three leaves, one UNTESTED, one FAILED
\* and one ACTIVE, is open: it counts 3 to restart, 3 not passed, 2 to run
\* and 1 to stop.
C24_Witness ==
    /\ menus # <<>>
    /\ MenuShown.path = ""
    /\ {pathTestMap[p].state.status : p \in {"SMT.LED", "SMT.KBD", "RF"} \cap DOMAIN pathTestMap}
           = {"UNTESTED", "FAILED", "ACTIVE"}
    /\ \E k \in ItemsNamed(MenuShown, "restart_or_run") : MenuShown.items[k].count = 3
    /\ \E k \in ItemsNamed(MenuShown, "restart_not_passed") : MenuShown.items[k].count = 3
    /\ \E k \in ItemsNamed(MenuShown, "run_untested") : MenuShown.items[k].count = 2
    /\ \E k \in ItemsNamed(MenuShown, "stop") : MenuShown.items[k].count = 1

\* An action of a menu is enabled exactly when the subtree of the menu's
\* node has a leaf with one of the action's statuses.
EnabledIffCounted(menu, tests) ==
    \A k \in DOMAIN menu.items :
        LET item == menu.items[k]
        IN  item.name \in ActionNames
                => (item.enabled <=>
                        LeavesWithStatus(tests, menu.path,
                                         ItemStatuses(item.name)) # 0)

\* C25 as stated: in the menu shown for any node, leaf or group, each of
\* the four actions is present, and it is disabled exactly when its count
\* is zero.
C25_AllFourActionsAlwaysPresent ==
    [][ (Len(menus') > Len(menus))
        => /\ \A name \in ActionNames : ItemsNamed(MenuShown', name) # {}
           /\ EnabledIffCounted(MenuShown', pathTestMap')
      ]_vars

\* C25 amended: in the menu shown for a group, each of the four actions is
\* present once; in the menu shown for a leaf, run/restart-all and
\* stop-active are present once and restart-not-passed and run-untested are
\* absent; every action present is disabled exactly when its count is zero.
C25_ActionsPresentForGroupsOnly ==
    [][ (Len(menus') > Len(menus))
        => LET menu == MenuShown'
               present == IF Len(pathTestMap'[menu.path].subtests) # 0
                              THEN ActionNames
                              ELSE {"restart_or_run", "stop"}
           IN  /\ \A name \in ActionNames :
                      Cardinality(ItemsNamed(menu, name))
                          = IF name \in present THEN 1 ELSE 0
               /\ EnabledIffCounted(menu, pathTestMap')
      ]_vars

\* The menu of a leaf that is not ACTIVE is open: it holds the action to
\* run or restart the leaf, enabled, and the action to stop, disabled, and
\* no other action.
C25_Witness ==
    /\ menus # <<>>
    /\ Len(pathTestMap[MenuShown.path].subtests) = 0
    /\ pathTestMap[MenuShown.path].state.status = "FAILED"
    /\ Len(MenuShown.items) = 2
    /\ MenuShown.items[1].name = "restart_or_run" /\ MenuShown.items[1].enabled
    /\ MenuShown.items[2].name = "stop" /\ ~MenuShown.items[2].enabled

\* The events the last handler handed to the socket, in order.
EventsSent ==
    LET sends == SelectSeq(effects, LAMBDA e : e.op = "send")
    IN  [k \in DOMAIN sends |-> sends[k].event]

\* C26: selecting an action of a context menu (run/restart-all,
\* restart-not-passed, run-untested or stop-active) sends exactly one
\* event, which carries the path of the node the menu was opened for, and,
\* for restart-not-passed, the statuses UNTESTED, ACTIVE and FAILED.
C26_ActionSendsOneEventWithPath ==
    [][ (last'.type = "menu:action" /\ last'.item \in ActionNames)
        => /\ Len(EventsSent') = 1
           /\ "path" \in DOMAIN EventsSent'[1]
           /\ EventsSent'[1].path = last'.path
           /\ (last'.item = "restart_not_passed")
                  => /\ "status" \in DOMAIN EventsSent'[1]
                     /\ EventsSent'[1].status = <<"UNTESTED", "ACTIVE", "FAILED">>
      ]_vars

\* The handlers that are replies of RPC calls, and the call each answers.
RpcReplyTypes ==
    {"rpc:get_test_list", "rpc:system_info", "rpc:test_list_options",
     "rpc:get_test_states"}

CallAnswered(type) ==
    CASE type = "rpc:get_test_list" -> GetTestList
      [] type = "rpc:system_info" -> GetSystemInfo
      [] type = "rpc:test_list_options" -> GetTestListOptions
      [] type = "rpc:get_test_states" -> GetTestStates

\* C27: with several RPC calls out at once and their replies arriving in
\* any order, a reply runs the continuation that was given with its own
\* call, once: the call was out and no longer is, the function that runs is
\* setTestList for get_test_list, setSystemInfo for system_info, the
\* function of init() for test_list_options and the function of
\* setTestList() for get_test_states, and what it stores comes from that
\* reply.  No other handler runs a continuation or takes a call back, and
\* no call is sent again: calls are sent only when the page loads and, for
\* get_test_states, by the reply of get_test_list.
C27_ReplyRunsItsOwnContinuationOnce ==
    [][ /\ (last'.type \in RpcReplyTypes)
           => LET rpc == CallAnswered(last'.type)
              IN  /\ rpc \in rpcPending
                  /\ rpc \notin rpcPending'
                  /\ rpcPending \ rpcPending' = {rpc}
                  /\ last'.callback = rpc.callback
                  /\ rpcPending' \ rpcPending
                         = IF rpc = GetTestList THEN {GetTestStates} ELSE {}
                  /\ (rpc = GetTestListOptions)
                         => engineeringPasswordSHA1'
                                = last'.options.engineering_password_sha1
                  /\ (rpc # GetTestListOptions)
                         => UNCHANGED <<engineeringPasswordSHA1, engineeringMode>>
                  /\ (rpc = GetTestList)
                         => /\ DOMAIN pathTestMap = {}
                            /\ DOMAIN pathTestMap' # {}
                  /\ (rpc = GetTestStates)
                         => /\ DOMAIN pathTestMap' = DOMAIN pathTestMap
                            /\ \A p \in DOMAIN pathTestMap' :
                                   pathTestMap'[p].state.status \in Statuses
                  /\ (rpc \notin {GetTestList, GetTestStates})
                         => UNCHANGED <<pathTestMap, pathNodeMap>>
                  /\ (rpc # GetSystemInfo) => infoTooltip' = infoTooltip
        /\ (last'.type \notin RpcReplyTypes \cup {"window:load"})
           => rpcPending' = rpcPending
      ]_vars

\* The reply of the third call of init() came first: the options are
\* stored while the test list and the system info are still awaited.
C27_Witness ==
    /\ last.type = "rpc:test_list_options"
    /\ rpcPending = {GetTestList, GetSystemInfo}
    /\ engineeringPasswordSHA1 = Sha1Hex("secret")
    /\ pathTestMap = <<>>

\* The reply of get_test_states has been handled and every event the
\* backend wrote to the socket has been delivered.
AllDelivered ==
    /\ DOMAIN pathTestMap # {}
    /\ GetTestStates \notin rpcPending
    /\ backend.socket = <<>>
    /\ backend.statesReplies = <<>>

\* C28: once the reply of get_test_states and every state_change event the
\* backend sent have been handled, however the reply and the events were
\* interleaved, the state the controller holds for every test is the state
\* the backend holds for it, that is, the one it reported last.
C28_StatesAreTheLastReported ==
    AllDelivered
        => \A p \in DOMAIN pathTestMap :
               pathTestMap[p].state = backend.states[p]

\* The run ids whose Invocation has been disposed of: an Invocation was made
\* for the id, and its iframe is gone.
DisposedUuids ==
    {u \in InvocationUuids : \E i \in ObjectsOf(objs, u) : ~objs[i].iframe}

\* C29: a run id whose Invocation has been disposed of stays so: no step
\* makes another Invocation for it, and a set_html, run_js or
\* call_js_function event that names it makes no iframe, removes none,
\* changes no Invocation and sends nothing.
C29_DisposedRunIdStaysDisposed ==
    [][ \A u \in DisposedUuids :
            /\ ObjectsOf(objs', u) = ObjectsOf(objs, u)
            /\ \A i \in ObjectsOf(objs', u) : ~objs'[i].iframe
            /\ (last'.type \in InvocationEventTypes /\ last'.invocation = u)
                   => /\ UNCHANGED <<invocations, objs, mainChildren>>
                      /\ effects' = <<>>
      ]_vars

\* An event named a run id whose Invocation had been disposed of: the one
\* Invocation ever made for it has no iframe, and nothing was done.
C29_Witness ==
    /\ last.type \in InvocationEventTypes
    /\ last.invocation \in DisposedUuids
    /\ effects = <<>>
    /\ \E i \in 1..Len(objs) :
           /\ ObjectsOf(objs, last.invocation) = {i}
           /\ ~objs[i].iframe
           /\ i \notin mainChildren


\* C30: a tick timer runs only for a shutdown dialog that is shown: once the
\* dialog is taken down, by a later pending_shutdown event with or without
\* a time, its timer is disposed of and does not tick again.  Where no
\* dialog is shown, no tick timer runs.
C30_NoTimerWithoutDialog ==
    /\ RunningTickTimers \subseteq ShownShutdownDialogs
    /\ last.type = "timer:tick" => last.dialog \in ShownShutdownDialogs

\* A dialog whose timer had ticked was taken down by an event with no time:
\* no dialog is shown and no timer runs.
C30_Witness ==
    /\ last.type = "goofy:pending_shutdown"
    /\ last.time = 0
    /\ effects = <<[op |-> "disposeDialog"]>>
    /\ ShownShutdownDialogs = {}
    /\ RunningTickTimers = {}
    /\ now > 0


\* Whether the test of a path is ACTIVE.
IsActive(path) == pathTestMap[path].state.status = "ACTIVE"

\* The nodes of groups, which have children.
GroupPaths == {p \in DOMAIN pathNodeMap : Len(pathTestMap[p].subtests) # 0}

\* C31: with AUTO_COLLAPSE, a state other than ACTIVE set for a group
\* starts a timeout for its node; when the timeout fires the node is
\* collapsed if its test is not ACTIVE then and is left as it is if its test
\* is ACTIVE then; and no node that is expanded is collapsed in any other
\* way once the tree is built.
C31_CollapseOnlyIfStillInactive ==
    [][ /\ ( /\ last'.type = "goofy:state_change"
             /\ autoCollapse
             /\ last'.path \in GroupPaths
             /\ last'.state.status # "ACTIVE" )
            => last'.path \in collapseTimers'
        /\ last'.type = "timer:collapse"
            => /\ autoCollapse
               /\ last'.path \in collapseTimers
               /\ last'.path \notin collapseTimers'
               /\ pathTestMap' = pathTestMap
               /\ pathNodeMap' =
                      IF IsActive(last'.path)
                          THEN pathNodeMap
                          ELSE [pathNodeMap EXCEPT
                                   ![last'.path].expanded = FALSE]
        /\ \A p \in DOMAIN pathNodeMap :
               (pathNodeMap[p].expanded /\ ~pathNodeMap'[p].expanded)
                   => /\ last' = [type |-> "timer:collapse", path |-> p]
                      /\ ~IsActive(p) ]_vars

\* A timeout fired for a group that was ACTIVE again and expanded: the
\* group is still expanded.
C31_Witness ==
    /\ autoCollapse
    /\ last.type = "timer:collapse"
    /\ IsActive(last.path)
    /\ pathNodeMap[last.path].expanded


\* C32: once a goofy:run_js event has been handled, the window of no iframe
\* holds the args of the event, as __goofy_args or as args: code run or a
\* function called there later finds none.
C32_ArgsDoNotOutliveRunJs ==
    \A i \in DOMAIN objs :
        /\ objs[i].goofyArgs = Undefined
        /\ objs[i].args = Undefined


\* The names that are no function of the iframe.
MissingFunctionNames ==
    {name \in JsFunctionNames : EvalName(name) # "function"}

\* C33: a goofy:call_js_function event, for a run id that was not disposed
\* of, whose name is no function of the iframe is logged as a severe error
\* and dropped: nothing is applied and no exception is raised, nothing is
\* sent, the tree and its tests are unchanged, and the Invocation of the run
\* id is live afterwards, the one there was if there was one.
C33_MissingFunctionLoggedAndDropped ==
    [][ ( /\ last'.type = "goofy:call_js_function"
          /\ last'.name \in MissingFunctionNames
          /\ invocations'[last'.invocation] # NoObject )
        => /\ evals' = <<[op |-> "severe"]>>
           /\ \A k \in DOMAIN effects' : effects'[k].op # "send"
           /\ UNCHANGED <<pathTestMap, pathNodeMap>>
           /\ objs'[invocations'[last'.invocation]].iframe
           /\ last'.invocation \in DOMAIN invocations
                  => UNCHANGED <<invocations, objs, mainChildren>> ]_vars


\* The run ids of the goofy:end_test events among the effects of a handler.
EndTestsOf(handlerEffects) ==
    { handlerEffects[k].event.invocation :
        k \in {j \in DOMAIN handlerEffects :
                  /\ handlerEffects[j].op = "send"
                  /\ handlerEffects[j].event.type = "goofy:end_test"} }

\* C34: no run id has more than one goofy:end_test event sent for it.  Of
\* two handlers that run one after the other, the second sends none for a
\* run id for which the first sent one; a step that does is two events for
\* one run id.
C34_AtMostOneEndTestPerRunId ==
    [][ EndTestsOf(effects') \cap EndTestsOf(effects) = {} ]_vars


\* The reply of get_shared_data(['test_list_options']) has not been handled.
OptionsPending == GetTestListOptions \in rpcPending

\* C35: until the reply with the test list options has been handled, the
\* stored hash is the placeholder, which is the digest of no text, and the
\* engineering mode is off, whatever the operator enters in the prompt
\* meanwhile; the handler of the reply stores the hash of the reply and
\* leaves the mode on exactly when the reply has no hash.
C35_LockedUntilOptionsThenByHash ==
    [][ /\ OptionsPending'
            => /\ ~engineeringMode'
               /\ engineeringPasswordSHA1' = "?"
               /\ \A text \in Texts :
                      Sha1Hex(text) # engineeringPasswordSHA1'
        /\ (OptionsPending /\ ~OptionsPending')
            => /\ last'.type = "rpc:test_list_options"
               /\ engineeringPasswordSHA1' =
                      last'.options.engineering_password_sha1
               /\ engineeringMode' <=>
                      ~HashConfigured(last'.options.engineering_password_sha1)
      ]_vars

\* The operator entered the password in the prompt before the options had
\* arrived: an alert, and the engineering mode is off.
C35_Witness ==
    /\ OptionsPending
    /\ last.type = "prompt:exit"
    /\ last.text = "secret"
    /\ AlertsShown = <<[op |-> "alert", message |-> "Incorrect password."]>>
    /\ ~engineeringMode


StateOfTask(taskList, taskID) ==
    IF IndexOfTask(taskList, taskID) = 0
        THEN "none"
        ELSE taskList[IndexOfTask(taskList, taskID)].state

\* The first task of a list that is WAITING, 0 if none is.
FirstWaiting(taskList) ==
    IF \E i \in DOMAIN taskList : taskList[i].state = TaskStates.WAITING
        THEN taskList[CHOOSE i \in DOMAIN taskList :
                 /\ taskList[i].state = TaskStates.WAITING
                 /\ \A j \in 1..(i - 1) :
                        taskList[j].state # TaskStates.WAITING].taskID
        ELSE 0

ToCancel(taskList, taskID) ==
    { taskList[i].taskID :
        i \in {j \in DOMAIN taskList :
                  /\ j >= IndexOfTask(taskList, taskID)
                  /\ taskList[j].state \in {TaskStates.WAITING,
                                            TaskStates.FAILED}} }

CallsTestFail(handlerEffects) ==
    \E i \in DOMAIN handlerEffects : handlerEffects[i].op = "window.test.fail"

\* The handler made restartTest run: only restartTest gives the prompts
\* of the instructions.
Restarts(handlerEffects) ==
    \E i \in DOMAIN handlerEffects :
        /\ handlerEffects[i].op = "prompt"
        /\ handlerEffects[i].message \in {"MSG_SPIRAL_INSTRUCTION",
                                           "MSG_ANYORDER_INSTRUCTION"}

C40_SequenceVisitsEveryBlockOnce ==
    touchscreenTest # NoTouchscreenTest
    => LET t == touchscreenTest
           blockCount == t.numColumns * t.numRows
       IN  /\ Len(t.expectSequence) = blockCount
           /\ {t.expectSequence[i].blockIndex :
                  i \in DOMAIN t.expectSequence} = 0..(blockCount - 1)
           /\ t.expectSequence[1].blockIndex = 0

\* A grid with an inner ring of more than one block was set up: 4 by 3.
C40_Witness ==
    /\ touchscreenTest # NoTouchscreenTest
    /\ touchscreenTest.numColumns = 4
    /\ touchscreenTest.numRows = 3
    /\ Len(touchscreenTest.expectSequence) = 12
    /\ touchscreenTest.expectSequence[11].blockIndex = 5
    /\ touchscreenTest.expectSequence[12].blockIndex = 6

=============================================================================
